---- MODULE Spec2Model ----
(***************************************************************************)
(* Order / inventory / payment-webhook flow of the e-commerce backend.     *)
(*                                                                         *)
(* The database is two collections: products and orders.  A document is a  *)
(* record whose fields are exactly the paths its mongoose schema declares  *)
(* (schemas are strict): reading a property that is not a schema path      *)
(* yields undefined, assigning one sets a plain property that save() never *)
(* persists.  HasPath(doc, p) is "p is a path of the schema of doc".       *)
(*                                                                         *)
(* Money is kept in cents (integers); Math.round(x * 100) / 100 becomes    *)
(* rounding half-up to a whole cent.                                       *)
(*                                                                         *)
(* Every request handler is one action (the requests of this              *)
(* specification do not overlap).  req / res record the last request and   *)
(* its answer, pre the database as it was when the request arrived;        *)
(* cancels counts, per order, the owner's cancel requests, the status the  *)
(* order had at the first of them, and the stock they gave back.           *)
(*                                                                         *)
(* Further specifications over the same database follow the order flow:    *)
(* SpecRace (requests that overlap, one database operation per step),      *)
(* SpecRefund (the refunds of an order), SpecCart (cart and wishlist),      *)
(* SpecLazy (overlapping first accesses to a cart or wishlist), SpecUsers  *)
(* (roles, addresses and account deletion), SpecCancelRace (overlapping    *)
(* cancel requests), SpecRedeliver (webhook events delivered twice),       *)
(* SpecTotals (the three computations of totals) and SpecInventory (the    *)
(* order flow with the admin's status updates).  carts and wishlists are   *)
(* collections (sequences of documents, in insertion order), users maps a  *)
(* user id to its document, procs holds the requests in flight or what a   *)
(* specification remembers of its start.                                   *)
(***************************************************************************)
EXTENDS Integers, Sequences, FiniteSets, TLC

VARIABLES products, orders, req, res, pre, cancels, carts, wishlists, users, procs

vars == <<products, orders, req, res, pre, cancels, carts, wishlists, users, procs>>

(* The state the order flow of Spec leaves alone. *)
aside == <<carts, wishlists, users, procs>>

-----------------------------------------------------------------------------
(* Bounds of the model *)

(* Largest total quantity of one createOrder request *)
MaxOrderQty == 3
(* Cap of the sold-counters, summed over the products *)
MaxSold == 3
(* Cap of the length of an order's timeline *)
MaxTimeline == 3

-----------------------------------------------------------------------------
(* Identifiers *)

ProductIds == {"pA", "pB"}
MissingProduct == "pMissing"
RequestedProducts == ProductIds \cup {MissingProduct}

Users == {"u1", "u2", "adm"}
Role(u) == IF u = "adm" THEN "admin" ELSE "user"

OrderIds == {"o1", "o2"}
MissingOrder == "oMissing"
BadOrderId == "oBad"
NoOrderId == "none"
NewOrderId == "oNew"

IntentIds == {"pi1", "pi2"}

-----------------------------------------------------------------------------
(* Schemas *)

OrderStatusEnum ==
  {"pending", "confirmed", "processing", "shipped", "delivered",
   "cancelled", "refunded", "returned"}

PaymentStatusEnum == {"pending", "paid", "failed", "refunded", "partially_refunded"}

HasPath(doc, path) == path \in DOMAIN doc

(* Order documents' schema validation, run by save() before the pre-save   *)
(* hooks: required paths and enums.                                        *)
orderItemValid(item) ==
  /\ HasPath(item, "sku")
  /\ item.quantity >= 1
  /\ item.price >= 0
  /\ item.total >= 0

(* refunds: amount required with min 0, reason required. *)
refundValid(refund) == refund.amount >= 0 /\ refund.reason # ""

(* A schema whose required paths the controller's orders satisfy. *)
orderValid_lenient(o) == o.status \in OrderStatusEnum

orderValid(o) ==
  /\ \A i \in 1..Len(o.items) : orderItemValid(o.items[i])
  /\ \A i \in 1..Len(o.refunds) : refundValid(o.refunds[i])
  /\ HasPath(o, "shippingMethod")
  /\ o.status \in OrderStatusEnum
  /\ o.paymentStatus \in PaymentStatusEnum
  /\ o.subtotal >= 0 /\ o.tax >= 0 /\ o.shipping >= 0 /\ o.total >= 0

productValid_noStockMin(p) == p.price >= 0

(* Product documents' schema validation: stock has min 0. *)
productValid(p) == p.stock >= 0 /\ p.price >= 0

-----------------------------------------------------------------------------
(* Arithmetic of createOrder, in cents *)

Round2(tenths) == (tenths + 5) \div 10

RECURSIVE SumSeq(_)
SumSeq(s) == IF s = <<>> THEN 0 ELSE Head(s) + SumSeq(Tail(s))

(* const tax = subtotal * 0.1, rounded to cents by Math.round(tax*100)/100 *)
taxOf(subtotal) == Round2(subtotal)

(* const shippingCost = subtotal > 100 ? 0 : 10 *)
FreeShippingOver == 10000
FlatShipping == 1000
shippingCostOf(subtotal) == IF subtotal > FreeShippingOver THEN 0 ELSE FlatShipping

(* const total = subtotal + tax + shippingCost, rounded to cents; the tax  *)
(* enters unrounded (subtotal / 10), hence 11 * subtotal tenths of a cent. *)
totalOf(subtotal) == Round2(11 * subtotal + 10 * shippingCostOf(subtotal))

-----------------------------------------------------------------------------
(* createOrder *)

(* product.stockQuantity < item.quantity: stockQuantity is read from the   *)
(* product document; a path the schema does not declare reads undefined,   *)
(* and undefined < n is false.                                             *)
insufficientStock(product, quantity) ==
  HasPath(product, "stockQuantity") /\ product.stockQuantity < quantity

(* A loop that takes the quantity from the stock on hand. *)
decrementStock_stock(product, quantity) ==
  [product EXCEPT !.stock = @ - quantity, !.soldCount = @ + quantity]

(* product.stockQuantity -= q; product.soldCount += q; the document that   *)
(* product.save() persists (assignments to undeclared paths are not).      *)
decrementStock(product, quantity) ==
  LET sold == [product EXCEPT !.soldCount = @ + quantity]
  IN IF HasPath(product, "stockQuantity")
       THEN [sold EXCEPT !["stockQuantity"] = @ - quantity]
       ELSE sold

(* The for-loop over the request's items: code 0 when the loop ran to its  *)
(* end, 400 when an item was rejected, 500 when a product save threw; the  *)
(* products saved before the loop stopped stay saved.                      *)
RECURSIVE itemLoop(_, _, _, _)
itemLoop(items, ps, orderItems, subtotal) ==
  IF items = <<>>
    THEN [code |-> 0, products |-> ps, orderItems |-> orderItems, subtotal |-> subtotal]
    ELSE
      LET item == Head(items)
          stop(c) == [code |-> c, products |-> ps, orderItems |-> orderItems,
                      subtotal |-> subtotal]
      IN IF item.product \notin DOMAIN ps THEN stop(400)
         ELSE
           LET product == ps[item.product]
               itemTotal == product.price * item.quantity
               saved == decrementStock(product, item.quantity)
           IN IF insufficientStock(product, item.quantity) THEN stop(400)
              ELSE IF ~productValid(saved) THEN stop(500)
              ELSE itemLoop(Tail(items),
                            [ps EXCEPT ![item.product] = saved],
                            Append(orderItems,
                                   [product |-> item.product, price |-> product.price,
                                    quantity |-> item.quantity, total |-> itemTotal]),
                            subtotal + itemTotal)

(* new Order({...}): the paths of the schema that the controller sets      *)
(* (shippingCost is no path of the schema, so shipping keeps its default   *)
(* 0; the items carry no sku; no shippingMethod is given).                 *)
newOrder(user, orderItems, subtotal, intent) ==
  [user |-> user,
   items |-> orderItems,
   subtotal |-> subtotal,
   tax |-> taxOf(subtotal),
   shipping |-> 0,
   total |-> totalOf(subtotal),
   status |-> "pending",
   paymentStatus |-> "pending",
   paymentIntentId |-> intent,
   timeline |-> <<>>,
   refunds |-> <<>>]

(* orderSchema.pre('save'): a timeline entry when the status was modified  *)
(* (a new document's status counts as modified).                           *)
timelineHook(isNew, oldStatus, o) ==
  IF isNew \/ o.status # oldStatus
    THEN [o EXCEPT !.timeline = Append(@, o.status)]
    ELSE o

(* order.save(): validation, then the pre-save hooks, then the write.      *)
saveOrder(os, id, o) ==
  IF ~orderValid(o)
    THEN [ok |-> FALSE, orders |-> os]
    ELSE IF id \in DOMAIN os
      THEN [ok |-> TRUE,
            orders |-> [os EXCEPT ![id] = timelineHook(FALSE, os[id].status, o)]]
      ELSE [ok |-> TRUE,
            orders |-> (id :> timelineHook(TRUE, "none", o)) @@ os]

(* The handler up to its answer.  The cart is emptied (clearCart) and the   *)
(* order populated only after order.save() has returned; the orderNumber   *)
(* passed to the constructor is overwritten by a pre-save hook and plays   *)
(* no part in the totals or the inventory.                                 *)
createOrder(ps, os, user, items, hasAddress, intent) ==
  IF items = <<>> \/ ~hasAddress
    THEN [code |-> 400, products |-> ps, orders |-> os]
    ELSE
      LET loop == itemLoop(items, ps, <<>>, 0)
          saved == saveOrder(os, NewOrderId,
                             newOrder(user, loop.orderItems, loop.subtotal, intent))
      IN IF loop.code # 0
           THEN [code |-> loop.code, products |-> loop.products, orders |-> os]
           ELSE IF ~saved.ok
             THEN [code |-> 500, products |-> loop.products, orders |-> os]
             ELSE [code |-> 201, products |-> loop.products, orders |-> saved.orders]

-----------------------------------------------------------------------------
(* cancelOrder *)

(* Order.findById(id): a malformed id makes the query throw (CastError),   *)
(* an unknown id yields null.                                              *)
findByIdThrows(id) == id = BadOrderId
findByIdFinds(os, id) == id \in DOMAIN os

ownsOrderOrAdmin(order, user) == order.user = user \/ Role(user) = "admin"

(* order.user.toString() !== req.user.id *)
ownsOrder(order, user) == order.user = user

CancellableStatuses == {"pending", "confirmed"}

(* product.stockQuantity += q; product.soldCount -= q; as persisted by     *)
(* product.save().                                                         *)
restoreStock(product, quantity) ==
  LET sold == [product EXCEPT !.soldCount = @ - quantity]
  IN IF HasPath(product, "stockQuantity")
       THEN [sold EXCEPT !["stockQuantity"] = @ + quantity]
       ELSE sold

(* The loop over order.items: products that no longer exist are skipped.   *)
RECURSIVE restoreLoop(_, _)
restoreLoop(items, ps) ==
  IF items = <<>> THEN [code |-> 0, products |-> ps]
  ELSE
    LET item == Head(items)
    IN IF item.product \notin DOMAIN ps THEN restoreLoop(Tail(items), ps)
       ELSE
         LET saved == restoreStock(ps[item.product], item.quantity)
         IN IF ~productValid(saved) THEN [code |-> 500, products |-> ps]
            ELSE restoreLoop(Tail(items), [ps EXCEPT ![item.product] = saved])

(* order.statusHistory.push(entry): statusHistory is read from the order   *)
(* document; when the schema declares no such path the read is undefined   *)
(* and the call throws a TypeError.                                        *)
statusHistoryPushThrows(order) == ~HasPath(order, "statusHistory")

statusHistoryPush(order, status) ==
  [order EXCEPT !["statusHistory"] = Append(@, status)]

cancelOrder(ps, os, user, id) ==
  LET answer(c) == [code |-> c, products |-> ps, orders |-> os]
  IN IF findByIdThrows(id) THEN answer(500)
     ELSE IF ~findByIdFinds(os, id) THEN answer(404)
     ELSE
       LET order == os[id]
       IN IF ~ownsOrder(order, user) THEN answer(403)
          ELSE IF order.status \notin CancellableStatuses THEN answer(400)
          ELSE IF statusHistoryPushThrows(order) THEN answer(500)
          ELSE
            LET cancelled == statusHistoryPush([order EXCEPT !.status = "cancelled"],
                                               "cancelled")
                loop == restoreLoop(order.items, ps)
                saved == saveOrder(os, id, cancelled)
            IN IF loop.code # 0
                 THEN [code |-> 500, products |-> loop.products, orders |-> os]
                 ELSE IF ~saved.ok
                   THEN [code |-> 500, products |-> loop.products, orders |-> os]
                   ELSE [code |-> 200, products |-> loop.products,
                         orders |-> saved.orders]

-----------------------------------------------------------------------------
(* Payment webhook *)

EventTypes ==
  {"payment_intent.succeeded", "payment_intent.payment_failed",
   "checkout.session.completed", "charge.refunded",
   "customer.subscription.created", "customer.subscription.updated",
   "customer.subscription.deleted", "unhandled"}

constructEvent_unverified(sigOk) == TRUE

(* stripe.webhooks.constructEvent(body, sig, secret): returns the event    *)
(* when the signature verifies against the secret and throws otherwise.    *)
constructEvent(sigOk) == sigOk

(* The update without the push to statusHistory: the order is assigned    *)
(* and saved whatever its status is.                                       *)
metadataOrderUpdate_saves(os, obj, status, paymentStatus) ==
  IF obj.orderId \notin DOMAIN os THEN [error |-> FALSE, orders |-> os]
  ELSE
    LET saved == saveOrder(os, obj.orderId,
                           [os[obj.orderId] EXCEPT !.status = status,
                                                   !.paymentStatus = paymentStatus,
                                                   !.paymentIntentId = obj.intent])
    IN [error |-> ~saved.ok, orders |-> saved.orders]

(* The try-block of a handler that locates the order by metadata.orderId,  *)
(* assigns status / paymentStatus / paymentIntentId, pushes to             *)
(* statusHistory and saves.  error = an exception left the try-block; the  *)
(* order is written by save() only.                                        *)
metadataOrderUpdate(os, obj, status, paymentStatus) ==
  LET keep == [error |-> FALSE, orders |-> os]
      fail == [error |-> TRUE, orders |-> os]
  IN IF obj.orderId = NoOrderId THEN keep
     ELSE IF findByIdThrows(obj.orderId) THEN fail
     ELSE IF ~findByIdFinds(os, obj.orderId) THEN keep
     ELSE
       LET order == os[obj.orderId]
           assigned == [order EXCEPT !.status = status,
                                     !.paymentStatus = paymentStatus,
                                     !.paymentIntentId = obj.intent]
       IN IF statusHistoryPushThrows(assigned) THEN fail
          ELSE
            LET saved == saveOrder(os, obj.orderId, statusHistoryPush(assigned, status))
            IN IF saved.ok THEN [error |-> FALSE, orders |-> saved.orders] ELSE fail

swallow_rethrows(body, message) ==
  [threw |-> body.error,
   orders |-> body.orders,
   logged |-> IF body.error THEN message ELSE "none"]

(* A handler's own try/catch: the error is logged and not rethrown. *)
swallow(body, message) ==
  [threw |-> FALSE,
   orders |-> body.orders,
   logged |-> IF body.error THEN message ELSE "none"]

(* A handler whose effect depends on what an earlier delivery left: an     *)
(* order that is paid already is moved on to processing.                   *)
handlePaymentSuccess_advancing(os, obj) ==
  [threw |-> FALSE,
   logged |-> "none",
   orders |-> IF obj.orderId \notin DOMAIN os THEN os
              ELSE IF os[obj.orderId].paymentStatus = "paid"
                THEN [os EXCEPT ![obj.orderId].status = "processing"]
                ELSE [os EXCEPT ![obj.orderId].status = "confirmed",
                                ![obj.orderId].paymentStatus = "paid",
                                ![obj.orderId].paymentIntentId = obj.intent]]

handlePaymentSuccess(os, obj) ==
  swallow(metadataOrderUpdate(os, obj, "confirmed", "paid"),
          "Error handling payment success")

handlePaymentFailure(os, obj) ==
  swallow(metadataOrderUpdate(os, obj, "payment_failed", "failed"),
          "Error handling payment failure")

handleCheckoutCompleted(os, obj) ==
  swallow(metadataOrderUpdate(os, obj, "confirmed", "paid"),
          "Error handling checkout completion")

(* Order.findOne({paymentIntentId: charge.payment_intent}): any one of the *)
(* orders that store this payment-intent id, or null ("none").             *)
findOneByIntent(os, intent) ==
  LET hits == {id \in DOMAIN os : os[id].paymentIntentId = intent}
  IN IF hits = {} THEN {NoOrderId} ELSE hits

(* A handler that adds the charge's amount to the refunds of the order on  *)
(* every delivery.                                                         *)
handleRefund_accumulating(os, obj, found) ==
  [threw |-> FALSE,
   logged |-> "none",
   orders |-> IF found = NoOrderId THEN os
              ELSE [os EXCEPT ![found].paymentStatus = "refunded",
                              ![found].refunds =
                                 Append(@, [amount |-> obj.amount, reason |-> "stripe",
                                            status |-> "processed"])]]

(* handleRefund, for the order that findOne returned: paymentStatus and    *)
(* refundAmount (= charge.amount_refunded) are assigned, the latter being  *)
(* kept only if the schema declares it.                                    *)
handleRefund(os, obj, found) ==
  LET body ==
        IF found = NoOrderId THEN [error |-> FALSE, orders |-> os]
        ELSE
          LET marked == [os[found] EXCEPT !.paymentStatus = "refunded"]
              assigned == IF HasPath(marked, "refundAmount")
                            THEN [marked EXCEPT !["refundAmount"] = obj.amount]
                            ELSE marked
          IN IF statusHistoryPushThrows(assigned) THEN [error |-> TRUE, orders |-> os]
             ELSE
               LET saved == saveOrder(os, found, statusHistoryPush(assigned, "refunded"))
               IN IF saved.ok THEN [error |-> FALSE, orders |-> saved.orders]
                  ELSE [error |-> TRUE, orders |-> os]
  IN swallow(body, "Error handling refund")

(* The subscription handlers and the default branch only log. *)
handleLogOnly(os) == [threw |-> FALSE, orders |-> os, logged |-> "none"]

(* switch (event.type) *)
dispatch(os, type, obj, found) ==
  CASE type = "payment_intent.succeeded" -> handlePaymentSuccess(os, obj)
    [] type = "payment_intent.payment_failed" -> handlePaymentFailure(os, obj)
    [] type = "checkout.session.completed" -> handleCheckoutCompleted(os, obj)
    [] type = "charge.refunded" -> handleRefund(os, obj, found)
    [] OTHER -> handleLogOnly(os)

(* router.post('/'): 400 on a signature that does not verify, else the     *)
(* dispatch; {received: true} (200) unless the dispatch threw (500).       *)
webhook(os, sigOk, type, obj, found) ==
  IF ~constructEvent(sigOk)
    THEN [code |-> 400, orders |-> os,
          logged |-> "Webhook signature verification failed"]
    ELSE
      LET handled == dispatch(os, type, obj, found)
      IN IF handled.threw
           THEN [code |-> 500, orders |-> handled.orders,
                 logged |-> "Error handling webhook event"]
           ELSE [code |-> 200, orders |-> handled.orders, logged |-> handled.logged]

-----------------------------------------------------------------------------
(* State *)

(* The catalogue: prices in cents and the stock on hand. *)
Price(id) == IF id = "pA" THEN 6000 ELSE 5000
InitialStock(id) == IF id = "pA" THEN 2 ELSE 1

(* A stored product: the paths of the product schema that the flow reads   *)
(* or writes (price, stock, soldCount).                                    *)
storedProduct(id) == [price |-> Price(id), stock |-> InitialStock(id), soldCount |-> 0]

orderItem(id, quantity) ==
  [product |-> id, sku |-> id, price |-> Price(id), quantity |-> quantity,
   total |-> Price(id) * quantity]

(* A stored order: a document that satisfies the order schema. *)
storedOrder(user, items, status, intent) ==
  LET subtotal == SumSeq([i \in 1..Len(items) |-> items[i].total])
  IN [user |-> user,
      items |-> items,
      subtotal |-> subtotal,
      tax |-> taxOf(subtotal),
      shipping |-> shippingCostOf(subtotal),
      total |-> totalOf(subtotal),
      status |-> status,
      paymentStatus |-> "pending",
      paymentIntentId |-> intent,
      shippingMethod |-> "standard",
      timeline |-> <<status>>,
      refunds |-> <<>>]

NoRequest ==
  [op |-> "none", user |-> "none", order |-> NoOrderId, items |-> <<>>,
   hasAddress |-> FALSE, sigOk |-> FALSE, type |-> "none", intent |-> "none"]

NoCancels == [id \in OrderIds |-> [n |-> 0, first |-> "none", gain |-> 0]]

Init ==
  /\ products = [id \in ProductIds |-> storedProduct(id)]
  /\ \E s1 \in {"pending", "confirmed", "shipped", "cancelled"}, s2 \in {"pending"} :
       orders = [id \in OrderIds |->
                   IF id = "o1"
                     THEN storedOrder("u1", <<orderItem("pA", 1), orderItem("pB", 1)>>,
                                      s1, "pi1")
                     ELSE storedOrder("u2", <<orderItem("pA", 1), orderItem("pA", 1)>>,
                                      s2, "none")]
  /\ req = NoRequest
  /\ res = [code |-> 0, logged |-> "none"]
  /\ pre = [products |-> products, orders |-> orders]
  /\ cancels = NoCancels
  /\ carts = <<>>
  /\ wishlists = <<>>
  /\ users = <<>>
  /\ procs = <<>>

(* The item lists of a request: items of quantity >= 1, of total quantity  *)
(* n at most.                                                              *)
RECURSIVE ItemLists(_)
ItemLists(n) ==
  IF n = 0 THEN {<<>>}
  ELSE {<<>>} \cup
       {<<[product |-> p, quantity |-> q]>> \o rest :
          p \in RequestedProducts, q \in 1..n, rest \in ItemLists(n - 1)} 

TotalQuantity(items) == SumSeq([i \in 1..Len(items) |-> items[i].quantity])

RequestItems == {items \in ItemLists(MaxOrderQty) : TotalQuantity(items) <= MaxOrderQty}

Idle == req.op = "none"

Snapshot == pre' = [products |-> products, orders |-> orders]

TimelinesBounded == \A id \in DOMAIN orders : Len(orders[id].timeline) < MaxTimeline

TotalSold(ps) == ps["pA"].soldCount + ps["pB"].soldCount

TotalStock(ps) == ps["pA"].stock + ps["pB"].stock

(* POST /api/orders.  Requests without a shipping address are answered    *)
(* before the items are looked at, so they are drawn with at most one item.*)
CreateOrder ==
  \E user \in Users, items \in RequestItems, hasAddress \in BOOLEAN :
    LET out == createOrder(products, orders, user, items, hasAddress, "none")
    IN /\ Idle
       /\ hasAddress \/ Len(items) <= 1
       /\ NewOrderId \notin DOMAIN orders
       /\ TotalSold(out.products) <= MaxSold
       /\ products' = out.products
       /\ orders' = out.orders
       /\ req' = [NoRequest EXCEPT !.op = "createOrder", !.user = user,
                                   !.items = items, !.hasAddress = hasAddress]
       /\ res' = [code |-> out.code,
                  logged |-> IF out.code = 500 THEN "Error creating order" ELSE "none"]
       /\ Snapshot
       /\ UNCHANGED <<cancels, aside>>

(* PUT /api/orders/:id/cancel *)
CancelOrder ==
  \E user \in Users, id \in OrderIds \cup {MissingOrder, BadOrderId} :
    LET out == cancelOrder(products, orders, user, id)
        byOwner == id \in DOMAIN orders /\ orders[id].user = user
    IN /\ Idle
       /\ TimelinesBounded
       /\ products' = out.products
       /\ orders' = out.orders
       /\ req' = [NoRequest EXCEPT !.op = "cancelOrder", !.user = user, !.order = id]
       /\ res' = [code |-> out.code,
                  logged |-> IF out.code = 500 THEN "Error cancelling order" ELSE "none"]
       /\ Snapshot
       /\ cancels' =
            IF byOwner
              THEN [cancels EXCEPT ![id] =
                      [n |-> IF @.n < 2 THEN @.n + 1 ELSE 2,
                       first |-> IF @.n = 0 THEN orders[id].status ELSE @.first,
                       gain |-> IF @.n < 2
                                  THEN @.gain + TotalStock(out.products)
                                              - TotalStock(products)
                                  ELSE @.gain]]
              ELSE cancels
       /\ UNCHANGED aside

(* The fields of the payload that the handler of the event type reads:    *)
(* a charge carries payment_intent and no metadata.orderId that is read,   *)
(* the log-only events carry neither.                                      *)
PayloadShape(type, orderId, intent) ==
  CASE type = "charge.refunded" -> orderId = NoOrderId
    [] type \in {"payment_intent.succeeded", "payment_intent.payment_failed",
                 "checkout.session.completed"} -> TRUE
    [] OTHER -> orderId = NoOrderId /\ intent = "pi1"

(* charge.amount_refunded / 100 of the charge of a payment intent, in      *)
(* cents.                                                                  *)
AmountRefunded(intent) == IF intent = "pi1" THEN Price("pA") + Price("pB") ELSE Price("pB")

(* POST /api/payments/webhook *)
Webhook ==
  \E sigOk \in BOOLEAN, type \in EventTypes,
     orderId \in OrderIds \cup {MissingOrder, BadOrderId, NoOrderId},
     intent \in IntentIds :
    \E found \in findOneByIntent(orders, intent) :
      LET out == webhook(orders, sigOk, type,
                         [orderId |-> orderId, intent |-> intent,
                          amount |-> AmountRefunded(intent)], found)
      IN /\ Idle
         /\ TimelinesBounded
         /\ PayloadShape(type, orderId, intent)
         /\ orders' = out.orders
         /\ req' = [NoRequest EXCEPT !.op = "webhook", !.sigOk = sigOk, !.type = type,
                                     !.order = orderId, !.intent = intent]
         /\ res' = [code |-> out.code, logged |-> out.logged]
         /\ Snapshot
         /\ UNCHANGED <<products, cancels, aside>>

(* The response has been sent: the request is over. *)
Respond ==
  /\ ~Idle
  /\ req' = NoRequest
  /\ res' = [code |-> 0, logged |-> "none"]
  /\ pre' = [products |-> products, orders |-> orders]
  /\ UNCHANGED <<products, orders, cancels, aside>>

Next == CreateOrder \/ CancelOrder \/ Webhook \/ Respond

Spec == Init /\ [][Next]_vars

-----------------------------------------------------------------------------
(* Vocabulary of the properties *)

(* Total quantity of product p in an item list. *)
QtyOf(items, p) ==
  SumSeq([i \in 1..Len(items) |-> IF items[i].product = p THEN items[i].quantity ELSE 0])

(* Sum over the items of price * quantity, at the prices of ps. *)
SubtotalOf(items, ps) ==
  SumSeq([i \in 1..Len(items) |-> ps[items[i].product].price * items[i].quantity])

(* Every item names an existing product whose stock covers the quantity    *)
(* requested of it (over the whole list).                                  *)
AllInStock(items, ps) ==
  /\ items # <<>>
  /\ \A i \in 1..Len(items) :
       /\ items[i].product \in DOMAIN ps
       /\ ps[items[i].product].stock >= QtyOf(items, items[i].product)

(* Some item names a missing product or asks for more than the stock. *)
SomeItemFails(items, ps) ==
  \E i \in 1..Len(items) :
    \/ items[i].product \notin DOMAIN ps
    \/ ps[items[i].product].stock < items[i].quantity

CreateAnswered == req.op = "createOrder" /\ req.hasAddress
CancelAnswered == req.op = "cancelOrder" /\ req.order \in DOMAIN pre.orders
VerifiedEvent == req.op = "webhook" /\ req.sigOk
NewOrders == DOMAIN orders \ DOMAIN pre.orders

InventoryUnchanged ==
  \A p \in DOMAIN pre.products :
    /\ products[p].stock = pre.products[p].stock
    /\ products[p].soldCount = pre.products[p].soldCount

-----------------------------------------------------------------------------
(* C1: a createOrder request whose items are all in stock persists an      *)
(* order with tax = 10% of the subtotal, shipping = 0 above a subtotal of  *)
(* 100 and 10 otherwise, and total = subtotal + tax + shipping.            *)
C1_OrderTotals ==
  (CreateAnswered /\ AllInStock(req.items, pre.products)) =>
    /\ res.code = 201
    /\ \E id \in NewOrders :
         LET o == orders[id]
             subtotal == SubtotalOf(req.items, pre.products)
         IN /\ o.subtotal = subtotal
            /\ 10 * o.tax = subtotal
            /\ o.shipping = (IF subtotal > 10000 THEN 0 ELSE 1000)
            /\ o.total = o.subtotal + o.tax + o.shipping

(* C2: a createOrder request with an item that names a missing product or  *)
(* asks for more than the stock is answered 400, persists no order and     *)
(* leaves the stock and the sold-counter of every product as they were.    *)
C2_RejectedLeavesInventory ==
  (CreateAnswered /\ SomeItemFails(req.items, pre.products)) =>
    /\ res.code = 400
    /\ orders = pre.orders
    /\ InventoryUnchanged

(* C3: a cancelOrder request by the owner on a pending or confirmed order  *)
(* sets the status to cancelled, and gives every product back the quantity *)
(* the order holds of it (stock up, sold-counter down).                    *)
C3_CancelRestoresStock ==
  (/\ CancelAnswered
   /\ pre.orders[req.order].user = req.user
   /\ pre.orders[req.order].status \in {"pending", "confirmed"}) =>
    /\ orders[req.order].status = "cancelled"
    /\ \A p \in DOMAIN pre.products :
         LET q == QtyOf(pre.orders[req.order].items, p)
         IN /\ products[p].stock = pre.products[p].stock + q
            /\ products[p].soldCount = pre.products[p].soldCount - q

(* The guard of cancelOrder alone: the owner's request on an order that is *)
(* neither pending nor confirmed is answered 400 and changes nothing.      *)
C4_NotCancellableRejected ==
  (/\ CancelAnswered
   /\ pre.orders[req.order].user = req.user
   /\ pre.orders[req.order].status \notin {"pending", "confirmed"}) =>
    /\ res.code = 400
    /\ orders = pre.orders
    /\ products = pre.products

(* C4: a cancelOrder request by the owner on an order that is neither      *)
(* pending nor confirmed is answered 400 and changes nothing; so two       *)
(* successive cancel requests on an order that was pending or confirmed    *)
(* give its quantities back to the stock exactly once.                     *)
C4_CancelTwiceRestoresOnce ==
  /\ C4_NotCancellableRejected
  /\ \A id \in OrderIds :
       (cancels[id].n = 2 /\ cancels[id].first \in {"pending", "confirmed"}) =>
         cancels[id].gain = TotalQuantity(orders[id].items)

(* C5: a webhook request whose signature does not verify is answered 400   *)
(* and reaches no handler: no order changes, whatever the payload.         *)
C5_InvalidSignatureRejected ==
  (req.op = "webhook" /\ ~req.sigOk) =>
    /\ res.code = 400
    /\ res.logged = "Webhook signature verification failed"
    /\ orders = pre.orders

C5_Witness ==
  /\ req.op = "webhook" /\ ~req.sigOk
  /\ req.type = "payment_intent.succeeded"
  /\ req.order = "o1"
  /\ res.code = 400

(* C6: a verified payment_intent.succeeded or checkout.session.completed   *)
(* event naming an existing order leaves it confirmed and paid, with       *)
(* exactly one more timeline entry, whatever its status was.               *)
C6_PaymentSuccessConfirms ==
  (/\ VerifiedEvent
   /\ req.type \in {"payment_intent.succeeded", "checkout.session.completed"}
   /\ req.order \in DOMAIN pre.orders) =>
    /\ orders[req.order].status = "confirmed"
    /\ orders[req.order].paymentStatus = "paid"
    /\ Len(orders[req.order].timeline) = Len(pre.orders[req.order].timeline) + 1

(* C7: a verified payment_intent.payment_failed event naming an existing   *)
(* order leaves it with status payment_failed and paymentStatus failed,    *)
(* and with a timeline entry for the failure.                              *)
C7_PaymentFailureRecorded ==
  (/\ VerifiedEvent
   /\ req.type = "payment_intent.payment_failed"
   /\ req.order \in DOMAIN pre.orders) =>
    /\ orders[req.order].status = "payment_failed"
    /\ orders[req.order].paymentStatus = "failed"
    /\ \E i \in 1..Len(orders[req.order].timeline) :
         orders[req.order].timeline[i] = "payment_failed"

(* C8: a createOrder request whose items are all in stock persists exactly *)
(* one new order, pending and owned by the requester, and moves each       *)
(* product's requested quantity from its stock to its sold-counter.        *)
C8_CreateMovesStock ==
  (CreateAnswered /\ AllInStock(req.items, pre.products)) =>
    /\ Cardinality(NewOrders) = 1
    /\ \A id \in NewOrders :
         orders[id].status = "pending" /\ orders[id].user = req.user
    /\ \A p \in DOMAIN pre.products :
         /\ products[p].stock = pre.products[p].stock - QtyOf(req.items, p)
         /\ products[p].soldCount = pre.products[p].soldCount + QtyOf(req.items, p)

(* C9 as stated: cancelOrder is open to the owner and to admins: anybody   *)
(* else gets 403 and changes nothing, and an admin cancels another user's  *)
(* pending or confirmed order.                                             *)
C9_OwnerOrAdmin ==
  CancelAnswered =>
    LET o == pre.orders[req.order]
    IN /\ (o.user # req.user /\ Role(req.user) # "admin") =>
            (res.code = 403 /\ orders = pre.orders /\ products = pre.products)
       /\ (o.user = req.user \/ Role(req.user) = "admin") => res.code # 403

(* C9 amended: cancelOrder is open to the order's owner only: a request by *)
(* any other user, an admin included, is answered 403 and changes nothing; *)
(* the owner's request is never answered 403.                              *)
C9_OwnerOnly ==
  CancelAnswered =>
    LET o == pre.orders[req.order]
    IN /\ o.user # req.user =>
            (res.code = 403 /\ orders = pre.orders /\ products = pre.products)
       /\ o.user = req.user => res.code # 403

C9_Witness ==
  /\ CancelAnswered
  /\ Role(req.user) = "admin"
  /\ pre.orders[req.order].user # req.user
  /\ pre.orders[req.order].status = "pending"
  /\ res.code = 403

(* C10: every verified webhook event is answered {received: true}; an      *)
(* update that fails inside a handler is logged there, leaves the orders   *)
(* as they were, and is not reported.                                      *)
C10_HandlerFailureSwallowed ==
  VerifiedEvent =>
    /\ res.code = 200
    /\ res.logged # "none" => orders = pre.orders

C10_Witness ==
  /\ VerifiedEvent
  /\ req.type = "payment_intent.succeeded"
  /\ req.order = "o1"
  /\ res.logged = "Error handling payment success"
  /\ res.code = 200

-----------------------------------------------------------------------------
(* Overlapping requests (SpecRace).  A handler runs until its next await;  *)
(* a step is one database operation together with the code that follows   *)
(* it up to the next one.  Every user has at most one request in flight:   *)
(* u1 and u2 order and cancel, adm updates products.                       *)

(* Largest quantity of an item of an overlapping createOrder request *)
MaxRaceQty == 2
(* Cap of the sold-counters, summed over the products, in SpecRace *)
MaxRaceSold == 2

Clients == {"u1", "u2"}

NewOrderIdOf(u) == IF u = "u1" THEN "oNew1" ELSE "oNew2"

NoDoc == [price |-> 0, stock |-> 0, soldCount |-> 0]

NoBody == [key |-> "none", value |-> 0]

(* A request in flight: its operation and position, its input (items,      *)
(* target, body), the handler's locals (the product document it loaded,    *)
(* orderItems, subtotal) and its answer.  seen: the stock of the product   *)
(* it read last; early: no other request had saved a product when this one *)
(* read its products; saved: this request has saved a product; number: the *)
(* sequence number the order-number hook computed; error: what made        *)
(* order.save() throw.                                                     *)
NoProc ==
  [op |-> "none", pc |-> "idle", items |-> <<>>, at |-> 1, product |-> NoDoc,
   orderItems |-> <<>>, subtotal |-> 0, code |-> 0, seen |-> 0, early |-> TRUE,
   saved |-> FALSE, target |-> "none", body |-> NoBody, number |-> 0,
   error |-> "none"]

(* document.save() of a document loaded earlier: the paths that were       *)
(* modified since are written, the others keep what the store holds.       *)
saveModified(stored, local, paths) ==
  [p \in DOMAIN stored |-> IF p \in paths THEN local[p] ELSE stored[p]]

(* Object.keys(updateFields).forEach(key => product[key] = ...): a key     *)
(* that is no path of the schema sets a property that is never persisted.  *)
assignFields(product, body) ==
  IF HasPath(product, body.key)
    THEN [product EXCEPT ![body.key] = body.value]
    ELSE product

RaceItems ==
  {<<[product |-> "pA", quantity |-> q]>> : q \in 1..MaxRaceQty}
    \cup {<<[product |-> "pA", quantity |-> 1], [product |-> "pB", quantity |-> 1]>>,
          <<[product |-> MissingProduct, quantity |-> 1]>>}

UpdateBodies ==
  {[key |-> "stock", value |-> v] : v \in {-1, 0}}
    \cup {[key |-> "stockQuantity", value |-> 0]}

(* The orderNumber of an order, kept as its sequence number within the     *)
(* day (ORD-<date>-<sequence>); the orders of the model are all of today.  *)
numbered(o, sequence) == [orderNumber |-> sequence] @@ o

(* this.constructor.countDocuments({createdAt: today}) + 1 *)
nextSequence(os) == Cardinality(DOMAIN os) + 1

(* The unique index on orderNumber: no stored order has the number. *)
uniqueOrderNumber(os, sequence) ==
  \A id \in DOMAIN os : os[id].orderNumber # sequence

InitRace ==
  /\ products = [id \in ProductIds |-> storedProduct(id)]
  /\ orders = [id \in OrderIds |->
                 IF id = "o1"
                   THEN numbered(storedOrder("u1", <<orderItem("pA", 1),
                                                     orderItem("pB", 1)>>,
                                             "pending", "pi1"), 1)
                   ELSE numbered(storedOrder("u2", <<orderItem("pA", 1),
                                                     orderItem("pA", 1)>>,
                                             "shipped", "none"), 2)]
  /\ procs = [u \in Users |-> NoProc]
  /\ req = NoRequest
  /\ res = [code |-> 0, logged |-> "none"]
  /\ pre = [products |-> products, orders |-> orders]
  /\ cancels = NoCancels
  /\ carts = <<>>
  /\ wishlists = <<>>
  /\ users = <<>>

raceFrame == <<req, res, pre, cancels, carts, wishlists, users>>

(* The answer is sent and the handler's locals are gone. *)
answered(proc, code) ==
  [proc EXCEPT !.pc = "done", !.code = code, !.at = 1, !.product = NoDoc,
               !.orderItems = <<>>, !.subtotal = 0]

(* POST /api/orders arrives: the items and the address are present. *)
RaceCreateOrder ==
  \E u \in Clients, items \in RaceItems :
    /\ procs[u].pc = "idle"
    /\ NewOrderIdOf(u) \notin DOMAIN orders
    /\ procs' = [procs EXCEPT ![u] =
                   [NoProc EXCEPT !.op = "createOrder", !.pc = "find", !.items = items]]
    /\ UNCHANGED <<products, orders, raceFrame>>

(* await Product.findById(item.product), the availability check and the    *)
(* assignments to the loaded document.                                     *)
RaceFindProduct ==
  \E u \in Clients :
    LET proc == procs[u]
        item == proc.items[proc.at]
    IN /\ proc.op = "createOrder" /\ proc.pc = "find"
       /\ procs' = [procs EXCEPT ![u] =
            IF item.product \notin DOMAIN products THEN answered(proc, 400)
            ELSE
              LET product == products[item.product]
                  itemTotal == product.price * item.quantity
              IN IF insufficientStock(product, item.quantity) THEN answered(proc, 400)
                 ELSE [proc EXCEPT
                         !.pc = "saveProduct",
                         !.product = decrementStock(product, item.quantity),
                         !.orderItems =
                            Append(@, [product |-> item.product, price |-> product.price,
                                       quantity |-> item.quantity, total |-> itemTotal]),
                         !.subtotal = @ + itemTotal,
                         !.seen = product.stock,
                         !.early = @ /\ \A v \in Clients \ {u} : ~procs[v].saved]]
       /\ UNCHANGED <<products, orders, raceFrame>>

(* await product.save() *)
RaceSaveProduct ==
  \E u \in Clients :
    LET proc == procs[u]
        id == proc.items[proc.at].product
        written == saveModified(products[id], proc.product, {"stockQuantity", "soldCount"})
    IN /\ proc.op = "createOrder" /\ proc.pc = "saveProduct"
       /\ TotalSold([products EXCEPT ![id] = written]) <= MaxRaceSold
       /\ IF ~productValid(proc.product)
            THEN /\ procs' = [procs EXCEPT ![u] = answered(proc, 500)]
                 /\ UNCHANGED products
            ELSE /\ products' = [products EXCEPT ![id] = written]
                 /\ procs' = [procs EXCEPT ![u] =
                      [proc EXCEPT !.saved = TRUE,
                                   !.at = @ + 1,
                                   !.pc = IF proc.at < Len(proc.items)
                                            THEN "find" ELSE "saveOrder"]]
       /\ UNCHANGED <<orders, raceFrame>>

(* new Order({...}) and await order.save(), one database operation at a   *)
(* time: validation and the order-number hook's countDocuments (pc         *)
(* saveOrder), then the timeline hook and the insert, which the unique     *)
(* index on orderNumber can refuse (pc insertOrder).                       *)
RaceSaveOrder ==
  \E u \in Clients :
    LET proc == procs[u]
        order == newOrder(u, proc.orderItems, proc.subtotal, "none")
        saved == saveOrder(orders, NewOrderIdOf(u), numbered(order, proc.number))
    IN /\ proc.op = "createOrder" /\ proc.pc \in {"saveOrder", "insertOrder"}
       /\ IF proc.pc = "saveOrder"
            THEN /\ procs' = [procs EXCEPT ![u] =
                      IF ~orderValid(order)
                        THEN [answered(proc, 500) EXCEPT !.error = "ValidationError"]
                        ELSE [proc EXCEPT !.pc = "insertOrder",
                                          !.number = nextSequence(orders)]]
                 /\ UNCHANGED orders
            ELSE IF uniqueOrderNumber(orders, proc.number) /\ saved.ok
              THEN /\ orders' = saved.orders
                   /\ procs' = [procs EXCEPT ![u] = answered(proc, 201)]
              ELSE /\ procs' = [procs EXCEPT ![u] =
                        [answered(proc, 500) EXCEPT !.error = "duplicate orderNumber"]]
                   /\ UNCHANGED orders
       /\ UNCHANGED <<products, raceFrame>>

(* PUT /api/orders/:id/cancel.  The handler reads the order and, the order *)
(* schema being what it is, throws before its first write; it is taken as  *)
(* one step.                                                               *)
RaceCancelOrder ==
  \E u \in Clients, id \in OrderIds :
    LET out == cancelOrder(products, orders, u, id)
    IN /\ procs[u].pc = "idle"
       /\ products' = out.products
       /\ orders' = out.orders
       /\ procs' = [procs EXCEPT ![u] =
            answered([NoProc EXCEPT !.op = "cancelOrder", !.target = id], out.code)]
       /\ UNCHANGED raceFrame

(* PUT /api/products/:id arrives; await Product.findById and the           *)
(* assignments of the body's fields.                                       *)
RaceUpdateProductFind ==
  \E id \in {"pA", MissingProduct}, body \in UpdateBodies :
    LET started == [NoProc EXCEPT !.op = "updateProduct", !.target = id, !.body = body]
    IN /\ procs["adm"].pc = "idle"
       /\ procs' = [procs EXCEPT !["adm"] =
            IF id \notin DOMAIN products THEN answered(started, 404)
            ELSE [started EXCEPT !.pc = "saveProduct",
                                 !.product = assignFields(products[id], body)]]
       /\ UNCHANGED <<products, orders, raceFrame>>

(* await product.save() *)
RaceUpdateProductSave ==
  LET proc == procs["adm"]
      id == proc.target
  IN /\ proc.op = "updateProduct" /\ proc.pc = "saveProduct"
     /\ IF ~productValid(proc.product)
          THEN /\ procs' = [procs EXCEPT !["adm"] = answered(proc, 500)]
               /\ UNCHANGED products
          ELSE /\ products' = [products EXCEPT ![id] =
                    saveModified(products[id], proc.product, {proc.body.key})]
               /\ procs' = [procs EXCEPT !["adm"] = answered(proc, 200)]
     /\ UNCHANGED <<orders, raceFrame>>

(* The response has been sent. *)
RaceRespond ==
  \E u \in Users :
    /\ procs[u].pc = "done"
    /\ procs' = [procs EXCEPT ![u] = NoProc]
    /\ UNCHANGED <<products, orders, raceFrame>>

NextRace ==
  \/ RaceCreateOrder \/ RaceFindProduct \/ RaceSaveProduct \/ RaceSaveOrder
  \/ RaceCancelOrder \/ RaceUpdateProductFind \/ RaceUpdateProductSave
  \/ RaceRespond

SpecRace == InitRace /\ [][NextRace]_vars

-----------------------------------------------------------------------------
(* C11: in every state reachable by createOrder, cancelOrder and admin     *)
(* product updates, overlapping in any way, every product's persisted      *)
(* stock is >= 0.                                                          *)
C11_StockNonNegative ==
  \A p \in DOMAIN products : products[p].stock >= 0

(* An admin update to a negative stock has been refused while an order     *)
(* request that saved a product is in flight.                              *)
C11_Witness ==
  /\ procs["adm"].op = "updateProduct"
  /\ procs["adm"].body = [key |-> "stock", value |-> -1]
  /\ procs["adm"].code = 500
  /\ \E u \in Clients : procs[u].op = "createOrder" /\ procs[u].saved
  /\ \E p \in DOMAIN products : products[p].soldCount > 0

-----------------------------------------------------------------------------
(* Refunds (SpecRefund): order.processRefund and the payment webhook, on   *)
(* the orders of Init.                                                     *)

(* Cap of the length of an order's refunds list *)
MaxRefunds == 2

(* orderSchema.virtual('totalRefunded') *)
totalRefunded(o) == SumSeq([i \in 1..Len(o.refunds) |-> o.refunds[i].amount])

(* order.processRefund(amount, reason, processedBy): the refund is pushed, *)
(* paymentStatus set from totalRefunded (read after the push) + amount,    *)
(* and the order saved.                                                    *)
processRefund(os, id, amount, reason) ==
  LET pushed == [os[id] EXCEPT !.refunds =
                   Append(@, [amount |-> amount, reason |-> reason,
                              status |-> "processed"])]
      updated == [pushed EXCEPT !.paymentStatus =
                    IF totalRefunded(pushed) + amount >= pushed.total
                      THEN "refunded" ELSE "partially_refunded"]
  IN saveOrder(os, id, updated)

RefundAmounts == {-1, 0, 10000}

ProcessRefund ==
  \E id \in OrderIds, amount \in RefundAmounts, reason \in {"", "requested by customer"} :
    LET out == processRefund(orders, id, amount, reason)
    IN /\ Idle
       /\ Len(orders[id].refunds) < MaxRefunds
       /\ orders' = out.orders
       /\ req' = [NoRequest EXCEPT !.op = "processRefund", !.order = id]
       /\ res' = [code |-> IF out.ok THEN 200 ELSE 500, logged |-> "none"]
       /\ Snapshot
       /\ UNCHANGED <<products, cancels, aside>>

NextRefund == ProcessRefund \/ Webhook \/ Respond

SpecRefund == Init /\ [][NextRefund]_vars

-----------------------------------------------------------------------------
(* C12: in every reachable state of an order the amounts of its refunds    *)
(* sum to at most the order's total.                                       *)
C12_RefundsWithinTotal ==
  \A id \in DOMAIN orders : totalRefunded(orders[id]) <= orders[id].total

-----------------------------------------------------------------------------
(* Cart and wishlist (SpecCart).  A collection is the sequence of its      *)
(* documents; a cart or wishlist item carries the paths of its schema      *)
(* (cart item: product, variant, quantity, price; wishlist item: product)  *)
(* and its _id.                                                            *)

(* Largest quantity of a cart item *)
MaxCartQty == 3
(* Cap of the length of a wishlist's item list *)
MaxWishlist == 2

(* An item id that no item has *)
MissingItemIds == {0}
NoProductId == "none"
NoVariant == "none"
Variants == {NoVariant, "v1"}

(* Model.findOne({user}): the position of the first document of the user,  *)
(* 0 for null.                                                             *)
findOne(coll, user) ==
  LET hits == {i \in 1..Len(coll) : coll[i].user = user}
  IN IF hits = {} THEN 0 ELSE CHOOSE i \in hits : \A j \in hits : i <= j

(* cartItemSchema: price is required, quantity has min 1. *)
cartItemValid(item) ==
  /\ HasPath(item, "price") /\ item.price >= 0
  /\ item.quantity >= 1

cartValid(cart) == \A i \in 1..Len(cart.items) : cartItemValid(cart.items[i])

(* wishlistItemSchema: product is required. *)
wishlistValid(wishlist) ==
  \A i \in 1..Len(wishlist.items) : HasPath(wishlist.items[i], "product")

uniqueUser_notEnforced(coll, user) == TRUE

(* user: {unique: true}: the index refuses a second document of a user. *)
uniqueUser(coll, user) == \A i \in 1..Len(coll) : coll[i].user # user

(* document.save(): validation, then an insert when the document is new    *)
(* (at = 0), an update of the stored document otherwise.                   *)
saveDoc(coll, at, doc, valid) ==
  IF ~valid THEN [ok |-> FALSE, coll |-> coll]
  ELSE IF at = 0
    THEN IF uniqueUser(coll, doc.user)
           THEN [ok |-> TRUE, coll |-> Append(coll, doc)]
           ELSE [ok |-> FALSE, coll |-> coll]
    ELSE [ok |-> TRUE, coll |-> [coll EXCEPT ![at] = doc]]

(* The _id of a pushed subdocument: one no item of the list has. *)
newItemId(items) ==
  LET used == {items[i].id : i \in 1..Len(items)}
      free == (1..(Len(items) + 1)) \ used
  IN CHOOSE n \in free : \A m \in free : n <= m

(* The for-loop of getUserCart over the populated items: the quantity is   *)
(* lowered where item.product.stockQuantity < item.quantity.               *)
clampItem(ps, item) ==
  IF item.product \in DOMAIN ps /\ insufficientStock(ps[item.product], item.quantity)
    THEN [item EXCEPT !.quantity = ps[item.product].stockQuantity]
    ELSE item

clampItems(ps, items) == [i \in 1..Len(items) |-> clampItem(ps, items[i])]

getUserCart(ps, cs, user) ==
  LET at == findOne(cs, user)
      created == saveDoc(cs, 0, [user |-> user, items |-> <<>>], TRUE)
  IN IF at = 0
       THEN IF created.ok THEN [code |-> 200, carts |-> created.coll]
                          ELSE [code |-> 500, carts |-> cs]
       ELSE
         LET cart == cs[at]
             clamped == [cart EXCEPT !.items = clampItems(ps, cart.items)]
             saved == saveDoc(cs, at, clamped, cartValid(clamped))
         IN IF clamped = cart THEN [code |-> 200, carts |-> cs]
            ELSE IF saved.ok THEN [code |-> 200, carts |-> saved.coll]
            ELSE [code |-> 500, carts |-> cs]

(* item.variant === variant in addToCart: the stored variant is an         *)
(* ObjectId (or absent), the requested one a string.                       *)
cartVariantEquals(item, variant) == FALSE

addToCart(ps, cs, user, productId, quantity, variant) ==
  LET answer(c) == [code |-> c, carts |-> cs]
  IN IF productId = NoProductId THEN answer(400)
     ELSE IF productId \notin DOMAIN ps THEN answer(404)
     ELSE IF insufficientStock(ps[productId], quantity) THEN answer(400)
     ELSE
       LET product == ps[productId]
           at == findOne(cs, user)
           cart == IF at = 0 THEN [user |-> user, items |-> <<>>] ELSE cs[at]
           hits == {i \in 1..Len(cart.items) :
                      /\ cart.items[i].product = productId
                      /\ variant = NoVariant \/ cartVariantEquals(cart.items[i], variant)}
       IN IF hits # {}
            THEN
              LET i == CHOOSE i \in hits : \A j \in hits : i <= j
                  newQuantity == cart.items[i].quantity + quantity
                  updated == [cart EXCEPT !.items[i].quantity = newQuantity]
                  saved == saveDoc(cs, at, updated, cartValid(updated))
              IN IF HasPath(product, "stockQuantity") /\ newQuantity > product.stockQuantity
                   THEN answer(400)
                   ELSE IF saved.ok THEN [code |-> 201, carts |-> saved.coll]
                   ELSE answer(500)
            ELSE
              LET pushed == [cart EXCEPT !.items =
                               Append(@, [id |-> newItemId(cart.items),
                                          product |-> productId,
                                          quantity |-> quantity,
                                          variant |-> variant])]
                  saved == saveDoc(cs, at, pushed, cartValid(pushed))
              IN IF saved.ok THEN [code |-> 201, carts |-> saved.coll]
                 ELSE answer(500)

(* items.filter(item => !itemIds.includes(item._id)) *)
RECURSIVE withoutIds(_, _)
withoutIds(items, itemIds) ==
  IF items = <<>> THEN <<>>
  ELSE IF Head(items).id \in itemIds THEN withoutIds(Tail(items), itemIds)
  ELSE <<Head(items)>> \o withoutIds(Tail(items), itemIds)

(* cart moveToWishlist and wishlist moveToCart: the items named are taken  *)
(* out of the list the request addresses, which is then saved.             *)
moveOut(coll, user, itemIds, ofCart) ==
  LET at == findOne(coll, user)
      answer(c) == [code |-> c, coll |-> coll]
  IN IF itemIds = {} THEN answer(400)
     ELSE IF at = 0 THEN answer(404)
     ELSE
       LET doc == coll[at]
           kept == [doc EXCEPT !.items = withoutIds(doc.items, itemIds)]
           saved == saveDoc(coll, at, kept,
                            IF ofCart THEN cartValid(kept) ELSE wishlistValid(kept))
       IN IF kept.items = doc.items THEN answer(400)
          ELSE IF saved.ok THEN [code |-> 200, coll |-> saved.coll]
          ELSE answer(500)

moveToWishlist(cs, user, itemIds) == moveOut(cs, user, itemIds, TRUE)

moveToCart(ws, user, itemIds) == moveOut(ws, user, itemIds, FALSE)

getUserWishlist(ws, user) ==
  LET created == saveDoc(ws, 0, [user |-> user, items |-> <<>>], TRUE)
  IN IF findOne(ws, user) # 0 THEN [code |-> 200, wishlists |-> ws]
     ELSE IF created.ok THEN [code |-> 200, wishlists |-> created.coll]
     ELSE [code |-> 500, wishlists |-> ws]

(* item.variant === variant in addToWishlist: variant is read from the     *)
(* stored wishlist item.                                                   *)
wishVariantEquals(item, variant) == HasPath(item, "variant") /\ item.variant = variant

addToWishlist(ps, ws, user, productId, variant) ==
  LET answer(c) == [code |-> c, wishlists |-> ws]
  IN IF productId = NoProductId THEN answer(400)
     ELSE IF productId \notin DOMAIN ps THEN answer(404)
     ELSE
       LET at == findOne(ws, user)
           wishlist == IF at = 0 THEN [user |-> user, items |-> <<>>] ELSE ws[at]
           existingItem ==
             \E i \in 1..Len(wishlist.items) :
               /\ wishlist.items[i].product = productId
               /\ variant = NoVariant \/ wishVariantEquals(wishlist.items[i], variant)
           pushed == [wishlist EXCEPT !.items =
                        Append(@, [id |-> newItemId(wishlist.items),
                                   product |-> productId])]
           saved == saveDoc(ws, at, pushed, wishlistValid(pushed))
       IN IF existingItem THEN answer(400)
          ELSE IF saved.ok THEN [code |-> 201, wishlists |-> saved.coll]
          ELSE answer(500)

removeFromWishlist(ws, user, itemId) ==
  LET at == findOne(ws, user)
      answer(c) == [code |-> c, wishlists |-> ws]
  IN IF at = 0 THEN answer(404)
     ELSE
       LET kept == [ws[at] EXCEPT !.items = withoutIds(@, {itemId})]
           saved == saveDoc(ws, at, kept, wishlistValid(kept))
       IN IF kept = ws[at] THEN answer(404)
          ELSE IF saved.ok THEN [code |-> 200, wishlists |-> saved.coll]
          ELSE answer(500)

clearWishlist(ws, user) ==
  LET at == findOne(ws, user)
  IN IF at = 0 THEN [code |-> 404, wishlists |-> ws]
     ELSE
       LET saved == saveDoc(ws, at, [ws[at] EXCEPT !.items = <<>>], TRUE)
       IN IF saved.ok THEN [code |-> 200, wishlists |-> saved.coll]
          ELSE [code |-> 500, wishlists |-> ws]

(* u1 uses its cart and wishlist; u2 only opens them. *)
CartUsers == {"u1", "u2"}
Shopper == "u1"

CartNoRequest ==
  [op |-> "none", user |-> "none", product |-> NoProductId, variant |-> NoVariant,
   quantity |-> 0, itemIds |-> {}]

cartItem(id, product, quantity) ==
  [id |-> id, product |-> product, quantity |-> quantity, price |-> Price(product),
   variant |-> NoVariant]

(* u1 has a cart with two items, u2 none; no wishlist exists yet.  The     *)
(* stock may have changed since the items were put into the cart.          *)
InitCart ==
  /\ \E stockB \in {0, 1} :
       products = [id \in ProductIds |->
                     IF id = "pB" THEN [storedProduct(id) EXCEPT !.stock = stockB]
                                  ELSE storedProduct(id)]
  /\ \E qA \in 1..MaxCartQty :
       carts = <<[user |-> "u1",
                  items |-> <<cartItem(1, "pA", qA), cartItem(2, "pB", 1)>>]>>
  /\ wishlists = <<>>
  /\ orders = [id \in OrderIds |->
                 storedOrder(IF id = "o1" THEN "u1" ELSE "u2",
                             <<orderItem("pA", 1)>>, "pending", "none")]
  /\ req = CartNoRequest
  /\ res = [code |-> 0, logged |-> "none"]
  /\ pre = [carts |-> carts, wishlists |-> wishlists]
  /\ cancels = NoCancels
  /\ users = <<>>
  /\ procs = <<>>

cartFrame == <<products, orders, cancels, users, procs>>

CartSnapshot == pre' = [carts |-> carts, wishlists |-> wishlists]

cartAnswer(code) == [code |-> code, logged |-> "none"]

(* The item ids a request may name: those of the user's document and one   *)
(* that no item has.                                                       *)
ItemIdsOf(coll, user) ==
  LET at == findOne(coll, user)
  IN MissingItemIds \cup
     (IF at = 0 THEN {} ELSE {coll[at].items[i].id : i \in 1..Len(coll[at].items)})

QuantitiesBounded(cs) ==
  \A c \in 1..Len(cs) : \A i \in 1..Len(cs[c].items) :
    cs[c].items[i].quantity <= MaxCartQty

WishlistsBounded(ws) == \A w \in 1..Len(ws) : Len(ws[w].items) <= MaxWishlist

(* GET /api/cart *)
GetUserCart ==
  \E user \in CartUsers :
    LET out == getUserCart(products, carts, user)
    IN /\ Idle
       /\ carts' = out.carts
       /\ req' = [CartNoRequest EXCEPT !.op = "getUserCart", !.user = user]
       /\ res' = cartAnswer(out.code)
       /\ CartSnapshot
       /\ UNCHANGED <<wishlists, cartFrame>>

(* POST /api/cart *)
AddToCart ==
  \E user \in {Shopper}, productId \in RequestedProducts \cup {NoProductId},
     quantity \in {1}, variant \in Variants :
    LET out == addToCart(products, carts, user, productId, quantity, variant)
    IN /\ Idle
       /\ QuantitiesBounded(out.carts)
       /\ carts' = out.carts
       /\ req' = [CartNoRequest EXCEPT !.op = "addToCart", !.user = user,
                                       !.product = productId, !.variant = variant,
                                       !.quantity = quantity]
       /\ res' = cartAnswer(out.code)
       /\ CartSnapshot
       /\ UNCHANGED <<wishlists, cartFrame>>

(* POST /api/cart/move-to-wishlist *)
MoveToWishlist ==
  \E user \in {Shopper} :
    \E itemIds \in SUBSET ItemIdsOf(carts, user) :
      LET out == moveToWishlist(carts, user, itemIds)
      IN /\ Idle
         /\ carts' = out.coll
         /\ req' = [CartNoRequest EXCEPT !.op = "moveToWishlist", !.user = user,
                                         !.itemIds = itemIds]
         /\ res' = cartAnswer(out.code)
         /\ CartSnapshot
         /\ UNCHANGED <<wishlists, cartFrame>>

(* GET /api/wishlist *)
GetUserWishlist ==
  \E user \in CartUsers :
    LET out == getUserWishlist(wishlists, user)
    IN /\ Idle
       /\ wishlists' = out.wishlists
       /\ req' = [CartNoRequest EXCEPT !.op = "getUserWishlist", !.user = user]
       /\ res' = cartAnswer(out.code)
       /\ CartSnapshot
       /\ UNCHANGED <<carts, cartFrame>>

(* POST /api/wishlist *)
AddToWishlist ==
  \E user \in {Shopper}, productId \in RequestedProducts \cup {NoProductId},
     variant \in Variants :
    LET out == addToWishlist(products, wishlists, user, productId, variant)
    IN /\ Idle
       /\ WishlistsBounded(out.wishlists)
       /\ wishlists' = out.wishlists
       /\ req' = [CartNoRequest EXCEPT !.op = "addToWishlist", !.user = user,
                                       !.product = productId, !.variant = variant]
       /\ res' = cartAnswer(out.code)
       /\ CartSnapshot
       /\ UNCHANGED <<carts, cartFrame>>

(* DELETE /api/wishlist/:itemId *)
RemoveFromWishlist ==
  \E user \in {Shopper} :
    \E itemId \in ItemIdsOf(wishlists, user) :
      LET out == removeFromWishlist(wishlists, user, itemId)
      IN /\ Idle
         /\ wishlists' = out.wishlists
         /\ req' = [CartNoRequest EXCEPT !.op = "removeFromWishlist", !.user = user,
                                         !.itemIds = {itemId}]
         /\ res' = cartAnswer(out.code)
         /\ CartSnapshot
         /\ UNCHANGED <<carts, cartFrame>>

(* DELETE /api/wishlist *)
ClearWishlist ==
  \E user \in {Shopper} :
    LET out == clearWishlist(wishlists, user)
    IN /\ Idle
       /\ wishlists' = out.wishlists
       /\ req' = [CartNoRequest EXCEPT !.op = "clearWishlist", !.user = user]
       /\ res' = cartAnswer(out.code)
       /\ CartSnapshot
       /\ UNCHANGED <<carts, cartFrame>>

(* POST /api/wishlist/move-to-cart *)
MoveToCart ==
  \E user \in {Shopper} :
    \E itemIds \in SUBSET ItemIdsOf(wishlists, user) :
      LET out == moveToCart(wishlists, user, itemIds)
      IN /\ Idle
         /\ wishlists' = out.coll
         /\ req' = [CartNoRequest EXCEPT !.op = "moveToCart", !.user = user,
                                         !.itemIds = itemIds]
         /\ res' = cartAnswer(out.code)
         /\ CartSnapshot
         /\ UNCHANGED <<carts, cartFrame>>

(* The response has been sent: the request is over. *)
CartRespond ==
  /\ ~Idle
  /\ req' = CartNoRequest
  /\ res' = cartAnswer(0)
  /\ CartSnapshot
  /\ UNCHANGED <<carts, wishlists, cartFrame>>

NextCart ==
  \/ GetUserCart \/ AddToCart \/ MoveToWishlist
  \/ GetUserWishlist \/ AddToWishlist \/ RemoveFromWishlist \/ ClearWishlist
  \/ MoveToCart \/ CartRespond

SpecCart == InitCart /\ [][NextCart]_vars

(* The items of the user's document in a collection (none without one). *)
ItemsOf(coll, user) ==
  IF findOne(coll, user) = 0 THEN <<>> ELSE coll[findOne(coll, user)].items

ProductsIn(items) == {items[i].product : i \in 1..Len(items)}

ItemIdsIn(items) == {items[i].id : i \in 1..Len(items)}

-----------------------------------------------------------------------------
(* C13: getUserCart lowers the persisted quantity of every cart item that  *)
(* exceeds its product's stock to that stock, leaves the other items as    *)
(* they were and answers with success; afterwards no item of the cart has  *)
(* a quantity above its product's stock.                                   *)
C13_CartClamped ==
  (req.op = "getUserCart" /\ findOne(pre.carts, req.user) # 0) =>
    LET before == ItemsOf(pre.carts, req.user)
        after == ItemsOf(carts, req.user)
    IN /\ res.code = 200
       /\ Len(after) = Len(before)
       /\ \A i \in 1..Len(before) :
            LET stock == products[before[i].product].stock
            IN after[i] = IF before[i].quantity > stock
                            THEN [before[i] EXCEPT !.quantity = stock]
                            ELSE before[i]

(* C14: addToWishlist for a product that is already in the user's wishlist *)
(* is answered 400 and leaves the wishlist as it was, with or without a    *)
(* variant in the request; so no product occurs twice in a wishlist.       *)
C14_NoDuplicateWish ==
  /\ (/\ req.op = "addToWishlist"
      /\ req.product \in ProductsIn(ItemsOf(pre.wishlists, req.user))) =>
       (res.code = 400 /\ wishlists = pre.wishlists)
  /\ \A w \in 1..Len(wishlists) :
       \A i, j \in 1..Len(wishlists[w].items) :
         i # j => wishlists[w].items[i].product # wishlists[w].items[j].product

(* C19: a successful move transfers the items: after moveToWishlist every  *)
(* cart item named is gone from the cart and its product is in the user's  *)
(* wishlist; after moveToCart every wishlist item named is gone from the   *)
(* wishlist and its product is in the user's cart.                         *)
C19_MoveTransfers ==
  /\ (req.op = "moveToWishlist" /\ res.code = 200) =>
       LET before == ItemsOf(pre.carts, req.user)
       IN \A i \in 1..Len(before) :
            before[i].id \in req.itemIds =>
              /\ before[i].id \notin ItemIdsIn(ItemsOf(carts, req.user))
              /\ before[i].product \in ProductsIn(ItemsOf(wishlists, req.user))
  /\ (req.op = "moveToCart" /\ res.code = 200) =>
       LET before == ItemsOf(pre.wishlists, req.user)
       IN \A i \in 1..Len(before) :
            before[i].id \in req.itemIds =>
              /\ before[i].id \notin ItemIdsIn(ItemsOf(wishlists, req.user))
              /\ before[i].product \in ProductsIn(ItemsOf(carts, req.user))

-----------------------------------------------------------------------------
(* Users (SpecUsers): addresses and account deletion.  users maps the id   *)
(* of every stored user to its document: the role, the soft-delete flag    *)
(* isActive and the embedded address list, each address with its _id and   *)
(* its isDefault flag.                                                     *)

(* Cap of the length of a user's address list *)
MaxAddresses == 2

storedUser(u, addresses) ==
  [role |-> Role(u), isActive |-> TRUE, addresses |-> addresses]

ActiveStatuses == {"pending", "confirmed", "shipped"}

(* Order.countDocuments({user: id, status: {$in: [...]}}) *)
activeOrders(os, id) ==
  Cardinality({o \in DOMAIN os : os[o].user = id /\ os[o].status \in ActiveStatuses})

(* User.findByIdAndDelete(id) *)
findByIdAndDelete(us, id) == [u \in DOMAIN us \ {id} |-> us[u]]

(* DELETE /api/admin/users/:id *)
deleteUser(us, os, requester, id) ==
  IF id = requester THEN [code |-> 400, users |-> us]
  ELSE IF id \notin DOMAIN us THEN [code |-> 404, users |-> us]
  ELSE IF activeOrders(os, id) > 0 THEN [code |-> 400, users |-> us]
  ELSE [code |-> 200, users |-> findByIdAndDelete(us, id)]

(* PUT /api/admin/users/:id/role: User.findByIdAndUpdate(id, {role}) *)
updateUserRole(us, requester, id, role) ==
  IF role \notin {"user", "admin"} THEN [code |-> 400, users |-> us]
  ELSE IF id = requester /\ role = "user" THEN [code |-> 400, users |-> us]
  ELSE IF id \notin DOMAIN us THEN [code |-> 404, users |-> us]
  ELSE [code |-> 200, users |-> [us EXCEPT ![id].role = role]]

(* DELETE /api/users/account *)
deleteUserAccount(us, os, user, hasPassword, passwordValid) ==
  IF ~hasPassword THEN [code |-> 400, users |-> us]
  ELSE IF user \notin DOMAIN us THEN [code |-> 404, users |-> us]
  ELSE IF ~passwordValid THEN [code |-> 400, users |-> us]
  ELSE IF activeOrders(os, user) > 0 THEN [code |-> 400, users |-> us]
  ELSE [code |-> 200, users |-> findByIdAndDelete(us, user)]

(* DELETE /api/auth/account: user.isActive = false; user.save() *)
deleteAccount(us, user) ==
  IF user \notin DOMAIN us THEN [code |-> 500, users |-> us]
  ELSE [code |-> 200, users |-> [us EXCEPT ![user].isActive = FALSE]]

(* addresses.forEach(addr => addr.isDefault = false), but for one index *)
clearDefaultsBut(addresses, keep) ==
  [i \in 1..Len(addresses) |->
     IF i = keep THEN addresses[i] ELSE [addresses[i] EXCEPT !.isDefault = FALSE]]

(* addresses.findIndex(addr => addr._id.toString() === addressId), 0 for -1 *)
addressIndex(addresses, addressId) ==
  LET hits == {i \in 1..Len(addresses) : addresses[i].id = addressId}
  IN IF hits = {} THEN 0 ELSE CHOOSE i \in hits : \A j \in hits : i <= j

(* POST /api/users/addresses *)
addAddress(us, user, hasFields, isDefault) ==
  IF ~hasFields THEN [code |-> 400, users |-> us]
  ELSE IF user \notin DOMAIN us THEN [code |-> 404, users |-> us]
  ELSE
    LET addresses == us[user].addresses
        first == addresses = <<>> \/ isDefault
        newAddress == [id |-> newItemId(addresses), isDefault |-> first]
        others == IF first THEN clearDefaultsBut(addresses, 0) ELSE addresses
    IN [code |-> 201, users |-> [us EXCEPT ![user].addresses = Append(others, newAddress)]]

(* PUT /api/users/addresses/:addressId; of the body only isDefault matters *)
(* here: "absent", "true" or "false".                                      *)
updateAddress(us, user, addressId, isDefault) ==
  IF user \notin DOMAIN us THEN [code |-> 404, users |-> us]
  ELSE
    LET addresses == us[user].addresses
        at == addressIndex(addresses, addressId)
        assigned == IF isDefault = "absent" THEN addresses
                    ELSE [addresses EXCEPT ![at].isDefault = (isDefault = "true")]
        handled == IF isDefault = "true" THEN clearDefaultsBut(assigned, at) ELSE assigned
    IN IF at = 0 THEN [code |-> 404, users |-> us]
       ELSE [code |-> 200, users |-> [us EXCEPT ![user].addresses = handled]]

(* addresses.splice(addressIndex, 1) *)
splice(addresses, at) ==
  [i \in 1..(Len(addresses) - 1) |-> IF i < at THEN addresses[i] ELSE addresses[i + 1]]

(* DELETE /api/users/addresses/:addressId *)
deleteAddress(us, user, addressId) ==
  IF user \notin DOMAIN us THEN [code |-> 404, users |-> us]
  ELSE
    LET addresses == us[user].addresses
        at == addressIndex(addresses, addressId)
        rest == splice(addresses, at)
        kept == IF addresses[at].isDefault /\ rest # <<>>
                  THEN [rest EXCEPT ![1].isDefault = TRUE]
                  ELSE rest
    IN IF at = 0 THEN [code |-> 404, users |-> us]
       ELSE [code |-> 200, users |-> [us EXCEPT ![user].addresses = kept]]

(* PUT /api/users/addresses/:addressId/default *)
setDefaultAddress(us, user, addressId) ==
  IF user \notin DOMAIN us THEN [code |-> 404, users |-> us]
  ELSE
    LET addresses == us[user].addresses
        at == addressIndex(addresses, addressId)
        cleared == clearDefaultsBut(addresses, 0)
    IN IF at = 0 THEN [code |-> 404, users |-> us]
       ELSE [code |-> 200,
             users |-> [us EXCEPT ![user].addresses =
                          [cleared EXCEPT ![at].isDefault = TRUE]]]

UserNoRequest ==
  [op |-> "none", user |-> "none", target |-> "none", address |-> 0,
   isDefault |-> "absent"]

(* u1 has one address, the default one; o1 is u1's order, o2 is u2's. *)
InitUsers ==
  /\ users = [u \in Users |->
                storedUser(u, IF u = "u1" THEN <<[id |-> 1, isDefault |-> TRUE]>>
                                          ELSE <<>>)]
  /\ \E s1 \in {"pending", "cancelled"}, s2 \in {"shipped", "delivered"} :
       orders = [id \in OrderIds |->
                   IF id = "o1"
                     THEN storedOrder("u1", <<orderItem("pA", 1)>>, s1, "pi1")
                     ELSE storedOrder("u2", <<orderItem("pB", 1)>>, s2, "none")]
  /\ products = [id \in ProductIds |-> storedProduct(id)]
  /\ req = UserNoRequest
  /\ res = [code |-> 0, logged |-> "none"]
  /\ pre = [users |-> users, orders |-> orders]
  /\ cancels = NoCancels
  /\ carts = <<>>
  /\ wishlists = <<>>
  /\ procs = <<>>

userFrame == <<products, orders, cancels, carts, wishlists, procs>>

UserSnapshot == pre' = [users |-> users, orders |-> orders]

userStep(out, request) ==
  /\ Idle
  /\ users' = out.users
  /\ req' = request
  /\ res' = [code |-> out.code, logged |-> "none"]
  /\ UserSnapshot
  /\ UNCHANGED userFrame

(* The requester has passed protect and admin: it is a stored admin. *)
DeleteUser ==
  \E requester \in DOMAIN users, id \in Users :
    /\ users[requester].role = "admin"
    /\ userStep(deleteUser(users, orders, requester, id),
                [UserNoRequest EXCEPT !.op = "deleteUser", !.user = requester,
                                      !.target = id])

(* The requester has passed protect and admin: it is a stored admin. *)
UpdateUserRole ==
  \E requester \in DOMAIN users, id \in Users, role \in {"none", "user", "admin"} :
    /\ users[requester].role = "admin"
    /\ userStep(updateUserRole(users, requester, id, role),
                [UserNoRequest EXCEPT !.op = "updateUserRole", !.user = requester,
                                      !.target = id])

(* The requester has passed protect: it is a stored user. *)
DeleteUserAccount ==
  \E user \in DOMAIN users, hasPassword \in BOOLEAN, passwordValid \in BOOLEAN :
    /\ hasPassword \/ ~passwordValid
    /\ userStep(deleteUserAccount(users, orders, user, hasPassword, passwordValid),
                [UserNoRequest EXCEPT !.op = "deleteUserAccount", !.user = user,
                                      !.target = user])

DeleteAccount ==
  \E user \in DOMAIN users :
    userStep(deleteAccount(users, user),
             [UserNoRequest EXCEPT !.op = "deleteAccount", !.user = user,
                                   !.target = user])

AddressOwner == "u1"

AddressIds(us, user) ==
  {0} \cup {us[user].addresses[i].id : i \in 1..Len(us[user].addresses)}

AddAddress ==
  \E hasFields \in BOOLEAN, isDefault \in BOOLEAN :
    /\ AddressOwner \in DOMAIN users
    /\ Len(users[AddressOwner].addresses) < MaxAddresses
    /\ userStep(addAddress(users, AddressOwner, hasFields, isDefault),
                [UserNoRequest EXCEPT !.op = "addAddress", !.user = AddressOwner,
                                      !.isDefault = IF isDefault THEN "true" ELSE "false"])

UpdateAddress ==
  \E isDefault \in {"absent", "true", "false"} :
    /\ AddressOwner \in DOMAIN users
    /\ \E addressId \in AddressIds(users, AddressOwner) :
         userStep(updateAddress(users, AddressOwner, addressId, isDefault),
                  [UserNoRequest EXCEPT !.op = "updateAddress", !.user = AddressOwner,
                                        !.address = addressId, !.isDefault = isDefault])

DeleteAddress ==
  /\ AddressOwner \in DOMAIN users
  /\ \E addressId \in AddressIds(users, AddressOwner) :
       userStep(deleteAddress(users, AddressOwner, addressId),
                [UserNoRequest EXCEPT !.op = "deleteAddress", !.user = AddressOwner,
                                      !.address = addressId])

SetDefaultAddress ==
  /\ AddressOwner \in DOMAIN users
  /\ \E addressId \in AddressIds(users, AddressOwner) :
       userStep(setDefaultAddress(users, AddressOwner, addressId),
                [UserNoRequest EXCEPT !.op = "setDefaultAddress", !.user = AddressOwner,
                                      !.address = addressId])

(* The response has been sent: the request is over. *)
UserRespond ==
  /\ ~Idle
  /\ req' = UserNoRequest
  /\ res' = [code |-> 0, logged |-> "none"]
  /\ UserSnapshot
  /\ UNCHANGED <<users, userFrame>>

NextUsers ==
  \/ UpdateUserRole \/ DeleteUser \/ DeleteUserAccount \/ DeleteAccount
  \/ AddAddress \/ UpdateAddress \/ DeleteAddress \/ SetDefaultAddress
  \/ UserRespond

SpecUsers == InitUsers /\ [][NextUsers]_vars

-----------------------------------------------------------------------------
(* C15: a user document leaves the store only through the admin's          *)
(* deleteUser, and only when the user has no active order; the user's own  *)
(* account-deletion requests keep the document and only clear isActive; so *)
(* every order in an active status references a stored user.               *)
C15_OnlyAdminRemovesUsers ==
  /\ \A u \in DOMAIN pre.users \ DOMAIN users :
       req.op = "deleteUser" /\ activeOrders(orders, u) = 0
  /\ (req.op \in {"deleteUserAccount", "deleteAccount"}) => req.user \in DOMAIN users
  /\ \A o \in DOMAIN orders :
       orders[o].status \in ActiveStatuses => orders[o].user \in DOMAIN users

(* C16: whenever a user's address list is non-empty exactly one of its     *)
(* addresses is flagged isDefault, and none when it is empty.              *)
C16_OneDefaultAddress ==
  \A u \in DOMAIN users :
    LET addresses == users[u].addresses
        defaults == {i \in 1..Len(addresses) : addresses[i].isDefault}
    IN Cardinality(defaults) = (IF addresses = <<>> THEN 0 ELSE 1)

-----------------------------------------------------------------------------
(* Overlapping first accesses (SpecLazy): getUserCart, addToCart,          *)
(* getUserWishlist and addToWishlist, one database operation per step.     *)
(* No cart and no wishlist exists at the start.  A request keeps the       *)
(* position at which findOne found the user's document (0: none), its      *)
(* local copy of the document and the items it pushed to it.               *)

Slots == {"r1", "r2"}

CartOps == {"getUserCart", "addToCart"}
WishlistOps == {"getUserWishlist", "addToWishlist"}

NoLazyDoc == [user |-> "none", items |-> <<>>]

LazyNoProc ==
  [op |-> "none", pc |-> "idle", user |-> "none", product |-> NoProductId,
   variant |-> NoVariant, at |-> 0, doc |-> NoLazyDoc, pushed |-> <<>>, code |-> 0]

InitLazy ==
  /\ products = [id \in ProductIds |-> storedProduct(id)]
  /\ carts = <<>>
  /\ wishlists = <<>>
  /\ procs = [r \in Slots |-> LazyNoProc]
  /\ orders = [id \in OrderIds |->
                 storedOrder(IF id = "o1" THEN "u1" ELSE "u2",
                             <<orderItem("pA", 1)>>, "pending", "none")]
  /\ req = CartNoRequest
  /\ res = [code |-> 0, logged |-> "none"]
  /\ pre = [carts |-> carts, wishlists |-> wishlists]
  /\ cancels = NoCancels
  /\ users = <<>>

lazyFrame == <<products, orders, req, res, pre, cancels, users>>

lazyAnswered(proc, code) ==
  [proc EXCEPT !.pc = "done", !.code = code, !.doc = NoLazyDoc, !.pushed = <<>>]

(* A request arrives.  addToCart and addToWishlist answer 400 without a    *)
(* productId and look the product up first.                                *)
LazyStart ==
  \E r \in Slots, op \in CartOps \cup WishlistOps, user \in CartUsers,
     productId \in {"pA", MissingProduct, NoProductId}, variant \in Variants :
    LET started == [LazyNoProc EXCEPT !.op = op, !.user = user,
                                      !.product = productId, !.variant = variant]
    IN /\ procs[r].pc = "idle"
       /\ op \in {"getUserCart", "getUserWishlist"} =>
            (productId = NoProductId /\ variant = NoVariant)
       /\ (op = "addToCart" \/ productId # "pA") => variant = NoVariant
       /\ procs' = [procs EXCEPT ![r] =
            IF op \in {"getUserCart", "getUserWishlist"}
              THEN [started EXCEPT !.pc = "findOne"]
              ELSE IF productId = NoProductId THEN lazyAnswered(started, 400)
              ELSE [started EXCEPT !.pc = "findProduct"]]
       /\ UNCHANGED <<carts, wishlists, lazyFrame>>

(* await Product.findById(productId); addToCart adds one item. *)
LazyFindProduct ==
  \E r \in Slots :
    LET proc == procs[r]
    IN /\ proc.pc = "findProduct"
       /\ procs' = [procs EXCEPT ![r] =
            IF proc.product \notin DOMAIN products THEN lazyAnswered(proc, 404)
            ELSE IF proc.op = "addToCart" /\ insufficientStock(products[proc.product], 1)
              THEN lazyAnswered(proc, 400)
            ELSE [proc EXCEPT !.pc = "findOne"]]
       /\ UNCHANGED <<carts, wishlists, lazyFrame>>

(* The handler from its findOne to its save, on the document found (new    *)
(* when at = 0): the request after this step.                              *)
afterFindOne(proc, ps, coll) ==
  LET at == findOne(coll, proc.user)
      doc == IF at = 0 THEN [user |-> proc.user, items |-> <<>>] ELSE coll[at]
      found == [proc EXCEPT !.at = at, !.doc = doc]
      save(d, pushed) == [found EXCEPT !.pc = "save", !.doc = d, !.pushed = pushed]
      item == [id |-> newItemId(doc.items), product |-> proc.product]
      cartHits == {i \in 1..Len(doc.items) :
                     /\ doc.items[i].product = proc.product
                     /\ proc.variant = NoVariant
                          \/ cartVariantEquals(doc.items[i], proc.variant)}
      first == CHOOSE i \in cartHits : \A j \in cartHits : i <= j
      clamped == [doc EXCEPT !.items = clampItems(ps, doc.items)]
  IN CASE proc.op = "getUserCart" ->
            IF at = 0 THEN save(doc, <<>>)
            ELSE IF clamped # doc THEN save(clamped, <<>>)
            ELSE lazyAnswered(found, 200)
       [] proc.op = "getUserWishlist" ->
            IF at = 0 THEN save(doc, <<>>) ELSE lazyAnswered(found, 200)
       [] proc.op = "addToCart" ->
            IF cartHits # {}
              THEN IF /\ HasPath(ps[proc.product], "stockQuantity")
                      /\ doc.items[first].quantity + 1 > ps[proc.product].stockQuantity
                     THEN lazyAnswered(found, 400)
                     ELSE save([doc EXCEPT !.items[first].quantity = @ + 1], <<>>)
              ELSE LET new == [item EXCEPT !.quantity = 1, !.variant = proc.variant]
                   IN save([doc EXCEPT !.items = Append(@, new)], <<new>>)
       [] OTHER ->
            IF \E i \in 1..Len(doc.items) :
                 /\ doc.items[i].product = proc.product
                 /\ proc.variant = NoVariant
                      \/ wishVariantEquals(doc.items[i], proc.variant)
              THEN lazyAnswered(found, 400)
              ELSE save([doc EXCEPT !.items = Append(@, item)], <<item>>)

(* await Cart.findOne({user}) / Wishlist.findOne({user}) *)
LazyFindOne ==
  \E r \in Slots :
    LET proc == procs[r]
        coll == IF proc.op \in CartOps THEN carts ELSE wishlists
    IN /\ proc.pc = "findOne"
       /\ procs' = [procs EXCEPT ![r] = afterFindOne(proc, products, coll)]
       /\ UNCHANGED <<carts, wishlists, lazyFrame>>

(* The document that an update writes: pushed items are appended to the    *)
(* stored list ($push), other changes of the item list replace it ($set).  *)
updatedDoc(stored, doc, pushed) ==
  IF pushed # <<>> THEN [stored EXCEPT !.items = @ \o pushed]
  ELSE [stored EXCEPT !.items = doc.items]

(* await cart.save() / await wishlist.save() *)
lazySave(coll, proc, valid) ==
  IF proc.at = 0 THEN saveDoc(coll, 0, proc.doc, valid)
  ELSE saveDoc(coll, proc.at, updatedDoc(coll[proc.at], proc.doc, proc.pushed), valid)

LazySave ==
  \E r \in Slots :
    LET proc == procs[r]
        isCart == proc.op \in CartOps
        out == IF isCart THEN lazySave(carts, proc, cartValid(proc.doc))
                         ELSE lazySave(wishlists, proc, wishlistValid(proc.doc))
        created == IF proc.op \in {"addToCart", "addToWishlist"} THEN 201 ELSE 200
    IN /\ proc.pc = "save"
       /\ QuantitiesBounded(IF isCart THEN out.coll ELSE carts)
       /\ WishlistsBounded(IF isCart THEN wishlists ELSE out.coll)
       /\ carts' = IF isCart THEN out.coll ELSE carts
       /\ wishlists' = IF isCart THEN wishlists ELSE out.coll
       /\ procs' = [procs EXCEPT ![r] =
                      lazyAnswered(proc, IF out.ok THEN created ELSE 500)]
       /\ UNCHANGED lazyFrame

(* The response has been sent. *)
LazyRespond ==
  \E r \in Slots :
    /\ procs[r].pc = "done"
    /\ procs' = [procs EXCEPT ![r] = LazyNoProc]
    /\ UNCHANGED <<carts, wishlists, lazyFrame>>

NextLazy == LazyStart \/ LazyFindProduct \/ LazyFindOne \/ LazySave \/ LazyRespond

SpecLazy == InitLazy /\ [][NextLazy]_vars

DocsOf(coll, user) == {i \in 1..Len(coll) : coll[i].user = user}

-----------------------------------------------------------------------------
(* C17: however the requests that create a cart or a wishlist lazily       *)
(* overlap, every user has at most one cart document and at most one       *)
(* wishlist document.                                                      *)
C17_OneDocPerUser ==
  \A u \in CartUsers :
    /\ Cardinality(DocsOf(carts, u)) <= 1
    /\ Cardinality(DocsOf(wishlists, u)) <= 1

(* Two getUserCart requests of one user both found no cart; one created    *)
(* it, the save of the other was refused.                                  *)
C17_Witness ==
  /\ procs["r1"].op = "getUserCart" /\ procs["r2"].op = "getUserCart"
  /\ procs["r1"].user = procs["r2"].user
  /\ procs["r1"].pc = "done" /\ procs["r2"].pc = "done"
  /\ procs["r1"].at = 0 /\ procs["r2"].at = 0
  /\ procs["r1"].code = 200 /\ procs["r2"].code = 500
  /\ Cardinality(DocsOf(carts, procs["r1"].user)) = 1

-----------------------------------------------------------------------------
(* C18: a verified charge.refunded event sets paymentStatus = refunded on  *)
(* the one order that stores the charge's payment-intent id and leaves its *)
(* status and every other order as they were; when no order stores the id  *)
(* no order changes.  (Checked under Spec.)                                *)
C18_RefundMarksOrder ==
  (VerifiedEvent /\ req.type = "charge.refunded") =>
    LET hits == {id \in DOMAIN pre.orders : pre.orders[id].paymentIntentId = req.intent}
    IN IF hits = {} THEN orders = pre.orders
       ELSE \E id \in hits :
              /\ orders[id].paymentStatus = "refunded"
              /\ orders[id].status = pre.orders[id].status
              /\ \A other \in DOMAIN pre.orders \ {id} :
                   orders[other] = pre.orders[other]

(* Two createOrder requests for one product have both been answered, each  *)
(* read the stock before the other saved, each asked for no more than the  *)
(* stock it read, and together they asked for more.                        *)
OversellRace ==
  LET a == procs["u1"]
      b == procs["u2"]
  IN /\ a.op = "createOrder" /\ b.op = "createOrder"
     /\ a.pc = "done" /\ b.pc = "done"
     /\ Len(a.items) = 1 /\ Len(b.items) = 1
     /\ a.items[1].product = b.items[1].product
     /\ a.items[1].product \in DOMAIN products
     /\ a.early /\ b.early
     /\ a.seen = b.seen
     /\ a.items[1].quantity <= a.seen /\ b.items[1].quantity <= b.seen
     /\ a.items[1].quantity + b.items[1].quantity > a.seen

(* What the handlers do with such a pair: order.save() is refused for     *)
(* both, so neither is answered 201 and no order is inserted.  (Holds      *)
(* under SpecRace.)                                                        *)
OversellRaceNeverPersists ==
  OversellRace =>
    /\ procs["u1"].code = 500 /\ procs["u2"].code = 500
    /\ NewOrderIdOf("u1") \notin DOMAIN orders
    /\ NewOrderIdOf("u2") \notin DOMAIN orders

(* C20: two createOrder requests for the same product that both read the   *)
(* stock before either saves both pass the availability check and both     *)
(* persist an order, although their quantities sum to more than the stock. *)
(* (Checked under SpecRace.)                                               *)
C20_BothPersist ==
  OversellRace =>
    /\ procs["u1"].code = 201 /\ procs["u2"].code = 201
    /\ NewOrderIdOf("u1") \in DOMAIN orders
    /\ NewOrderIdOf("u2") \in DOMAIN orders

-----------------------------------------------------------------------------
(* Overlapping cancel requests (SpecCancelRace).  Two requests are in      *)
(* flight at once, each by any user on any order id; the owner of an order *)
(* can so have two cancel requests for it under way.  cancelOrder awaits   *)
(* Order.findById and runs on to its next await; with the order schema as  *)
(* it is, every path from there ends in an answer before a further await,  *)
(* so the handler is two steps: the request arrives, the order is read.    *)

CancelNoProc ==
  [op |-> "none", pc |-> "idle", user |-> "none", target |-> NoOrderId,
   seen |-> "none", code |-> 0]

InitCancelRace ==
  /\ products = [id \in ProductIds |-> storedProduct(id)]
  /\ \E s1 \in {"pending", "confirmed", "shipped"} :
       orders = [id \in OrderIds |->
                   IF id = "o1"
                     THEN storedOrder("u1", <<orderItem("pA", 1), orderItem("pB", 1)>>,
                                      s1, "pi1")
                     ELSE storedOrder("u2", <<orderItem("pA", 1), orderItem("pA", 1)>>,
                                      "pending", "none")]
  /\ procs = [s \in {"r1", "r2"} |-> CancelNoProc]
  /\ req = NoRequest
  /\ res = [code |-> 0, logged |-> "none"]
  /\ pre = [products |-> products, orders |-> orders]
  /\ cancels = NoCancels
  /\ carts = <<>>
  /\ wishlists = <<>>
  /\ users = <<>>

(* PUT /api/orders/:id/cancel arrives. *)
CancelArrive ==
  \E s \in DOMAIN procs, user \in Users,
     id \in OrderIds \cup {MissingOrder, BadOrderId} :
    /\ procs[s].pc = "idle"
    /\ procs' = [procs EXCEPT ![s] =
         [CancelNoProc EXCEPT !.op = "cancelOrder", !.pc = "find",
                              !.user = user, !.target = id]]
    /\ UNCHANGED <<products, orders, raceFrame>>

(* await Order.findById(req.params.id) and the handler from there on.      *)
CancelFindById ==
  \E s \in DOMAIN procs :
    LET proc == procs[s]
        out == cancelOrder(products, orders, proc.user, proc.target)
    IN /\ proc.pc = "find"
       /\ products' = out.products
       /\ orders' = out.orders
       /\ procs' = [procs EXCEPT ![s] =
            [proc EXCEPT !.pc = "done", !.code = out.code,
                         !.seen = IF proc.target \in DOMAIN orders
                                    THEN orders[proc.target].status ELSE "none"]]
       /\ UNCHANGED raceFrame

(* The response has been sent. *)
CancelRaceRespond ==
  \E s \in DOMAIN procs :
    /\ procs[s].pc = "done"
    /\ procs' = [procs EXCEPT ![s] = CancelNoProc]
    /\ UNCHANGED <<products, orders, raceFrame>>

NextCancelRace == CancelArrive \/ CancelFindById \/ CancelRaceRespond

SpecCancelRace == InitCancelRace /\ [][NextCancelRace]_vars

(* The owner's two cancel requests for one order have both been answered,  *)
(* and both read the order as pending or confirmed.                        *)
CancelRace ==
  LET a == procs["r1"]
      b == procs["r2"]
  IN /\ a.pc = "done" /\ b.pc = "done"
     /\ a.target = b.target /\ a.target \in DOMAIN orders
     /\ a.user = orders[a.target].user /\ b.user = a.user
     /\ a.seen \in CancellableStatuses /\ b.seen \in CancellableStatuses

(* What the handler does with such a pair: both requests stop at           *)
(* order.statusHistory.push, are answered 500 and have written nothing.    *)
(* (Holds under SpecCancelRace.)                                           *)
CancelRaceNeverRestores ==
  CancelRace =>
    /\ procs["r1"].code = 500 /\ procs["r2"].code = 500
    /\ products = pre.products
    /\ orders = pre.orders

(* C21: two cancelOrder requests for the same pending or confirmed order   *)
(* that both read the order before either saves it both pass the status    *)
(* check and each gives the order's quantities back, so the stock of every *)
(* product of the order rises by twice the quantity the order holds of it. *)
(* (Checked under SpecCancelRace.)                                         *)
C21_DoubleRestore ==
  CancelRace =>
    \A p \in DOMAIN products :
      products[p].stock =
        pre.products[p].stock + 2 * QtyOf(orders[procs["r1"].target].items, p)

-----------------------------------------------------------------------------
(* The items of a createOrder request that come before its first item      *)
(* naming a missing product (all of them when there is none).              *)
SavedPrefix(items, ps) ==
  LET missing == {i \in 1..Len(items) : items[i].product \notin DOMAIN ps}
      stop == IF missing = {} THEN Len(items) + 1
              ELSE CHOOSE i \in missing : \A j \in missing : i <= j
  IN SubSeq(items, 1, stop - 1)

(* createOrder was answered without an order having been created, after    *)
(* the loop had saved the product of at least one item that was in stock.  *)
StoppedAfterSave ==
  /\ CreateAnswered
  /\ res.code # 201
  /\ SavedPrefix(req.items, pre.products) # <<>>
  /\ AllInStock(SavedPrefix(req.items, pre.products), pre.products)

(* What stays of such a request: the sold-counters that product.save()     *)
(* wrote, and no order.  (Holds under Spec.)                               *)
PartialWritesStay ==
  StoppedAfterSave =>
    /\ orders = pre.orders
    /\ \A p \in DOMAIN pre.products :
         /\ products[p].soldCount =
              pre.products[p].soldCount + QtyOf(SavedPrefix(req.items, pre.products), p)
         /\ products[p].stock = pre.products[p].stock

(* C22: when createOrder stops after the loop saved the decremented stock  *)
(* of at least one product and before the order is saved (a later item     *)
(* fails, or the order save is rejected), the decrements saved so far stay *)
(* persisted and no order exists for them.  (Checked under Spec.)          *)
C22_PartialDecrementsStay ==
  StoppedAfterSave =>
    /\ orders = pre.orders
    /\ \A p \in DOMAIN pre.products :
         products[p].stock =
           pre.products[p].stock - QtyOf(SavedPrefix(req.items, pre.products), p)

-----------------------------------------------------------------------------
(* Redelivered webhook events (SpecRedeliver).  The payment provider       *)
(* delivers an event and may deliver the same event once more; procs       *)
(* counts the deliveries of the event in req and keeps the orders as they  *)
(* were after its first delivery.                                          *)

InitRedeliver ==
  /\ products = [id \in ProductIds |-> storedProduct(id)]
  /\ \E s1 \in {"pending", "confirmed", "shipped", "cancelled"} :
       orders = [id \in OrderIds |->
                   IF id = "o1"
                     THEN storedOrder("u1", <<orderItem("pA", 1), orderItem("pB", 1)>>,
                                      s1, "pi1")
                     ELSE storedOrder("u2", <<orderItem("pA", 1), orderItem("pA", 1)>>,
                                      "pending", "none")]
  /\ procs = [n |-> 0, after |-> orders]
  /\ req = NoRequest
  /\ res = [code |-> 0, logged |-> "none"]
  /\ pre = [products |-> products, orders |-> orders]
  /\ cancels = NoCancels
  /\ carts = <<>>
  /\ wishlists = <<>>
  /\ users = <<>>

(* POST /api/payments/webhook: the first delivery of an event. *)
Deliver ==
  \E sigOk \in BOOLEAN, type \in EventTypes,
     orderId \in OrderIds \cup {MissingOrder, BadOrderId, NoOrderId},
     intent \in IntentIds :
    \E found \in findOneByIntent(orders, intent) :
      LET out == webhook(orders, sigOk, type,
                         [orderId |-> orderId, intent |-> intent,
                          amount |-> AmountRefunded(intent)], found)
      IN /\ Idle
         /\ TimelinesBounded
         /\ PayloadShape(type, orderId, intent)
         /\ orders' = out.orders
         /\ req' = [NoRequest EXCEPT !.op = "webhook", !.sigOk = sigOk, !.type = type,
                                     !.order = orderId, !.intent = intent]
         /\ res' = [code |-> out.code, logged |-> out.logged]
         /\ Snapshot
         /\ procs' = [n |-> 1, after |-> out.orders]
         /\ UNCHANGED <<products, cancels, carts, wishlists, users>>

(* POST /api/payments/webhook: the event of req is delivered again. *)
Redeliver ==
  \E found \in findOneByIntent(orders, req.intent) :
    LET out == webhook(orders, req.sigOk, req.type,
                       [orderId |-> req.order, intent |-> req.intent,
                        amount |-> AmountRefunded(req.intent)], found)
    IN /\ req.op = "webhook"
       /\ procs.n = 1
       /\ TimelinesBounded
       /\ orders' = out.orders
       /\ res' = [code |-> out.code, logged |-> out.logged]
       /\ Snapshot
       /\ procs' = [procs EXCEPT !.n = 2]
       /\ UNCHANGED <<req, products, cancels, carts, wishlists, users>>

(* The provider stops delivering the event. *)
DeliveryOver ==
  /\ ~Idle
  /\ req' = NoRequest
  /\ res' = [code |-> 0, logged |-> "none"]
  /\ pre' = [products |-> products, orders |-> orders]
  /\ procs' = [n |-> 0, after |-> orders]
  /\ UNCHANGED <<products, orders, cancels, carts, wishlists, users>>

NextRedeliver == Deliver \/ Redeliver \/ DeliveryOver

SpecRedeliver == InitRedeliver /\ [][NextRedeliver]_vars

(* The verified event of req has been delivered twice. *)
DeliveredTwice == req.op = "webhook" /\ req.sigOk /\ procs.n = 2

(* C23: delivering the same verified payment_intent.succeeded or           *)
(* checkout.session.completed event twice leaves the order with the same   *)
(* status, paymentStatus and paymentIntentId as delivering it once.        *)
(* (Checked under SpecRedeliver.)                                          *)
C23_SuccessRedeliveryIdempotent ==
  (/\ DeliveredTwice
   /\ req.type \in {"payment_intent.succeeded", "checkout.session.completed"}
   /\ req.order \in DOMAIN orders) =>
    /\ orders[req.order].status = procs.after[req.order].status
    /\ orders[req.order].paymentStatus = procs.after[req.order].paymentStatus
    /\ orders[req.order].paymentIntentId = procs.after[req.order].paymentIntentId

(* A payment_intent.succeeded event for the pending order o2 has been      *)
(* delivered twice.                                                        *)
C23_Witness ==
  /\ DeliveredTwice
  /\ req.type = "payment_intent.succeeded"
  /\ req.order = "o2"
  /\ res.code = 200
  /\ orders["o2"].status = procs.after["o2"].status

(* The refund amount an order records: refundAmount where the schema       *)
(* declares it, and the sum of its refunds.                                *)
recordedRefund(o) ==
  (IF HasPath(o, "refundAmount") THEN o.refundAmount ELSE 0) + totalRefunded(o)

(* A verified charge.refunded event for a payment intent that an order     *)
(* stores has been delivered twice.                                        *)
RefundDeliveredTwice ==
  /\ DeliveredTwice
  /\ req.type = "charge.refunded"
  /\ \E id \in DOMAIN orders : orders[id].paymentIntentId = req.intent

(* C24 as stated: delivering the same verified charge.refunded event twice *)
(* double-counts the refund: the order records a larger refund amount      *)
(* after the second delivery than after the first.                         *)
C24_RedeliveryDoubleCounts ==
  RefundDeliveredTwice =>
    \A id \in DOMAIN orders :
      orders[id].paymentIntentId = req.intent =>
        recordedRefund(orders[id]) > recordedRefund(procs.after[id])

(* C24 amended: delivering the same verified charge.refunded event twice   *)
(* leaves every order with the refund amount, the refunds and the          *)
(* paymentStatus it had after the first delivery.                          *)
(* (Checked under SpecRedeliver.)                                          *)
C24_RefundRedeliveryIdempotent ==
  RefundDeliveredTwice =>
    \A id \in DOMAIN orders :
      /\ recordedRefund(orders[id]) = recordedRefund(procs.after[id])
      /\ orders[id].refunds = procs.after[id].refunds
      /\ orders[id].paymentStatus = procs.after[id].paymentStatus

C24_Witness ==
  /\ RefundDeliveredTwice
  /\ req.intent = "pi1"
  /\ res.code = 200
  /\ recordedRefund(orders["o1"]) = recordedRefund(procs.after["o1"])

-----------------------------------------------------------------------------
(* Totals (SpecTotals): the three places that compute the totals of a list *)
(* of items, applied to the same list.  req holds the items, res what each *)
(* place has computed for them so far.                                     *)

(* Largest quantity of an item of the list *)
MaxTotalsQty == 3

(* Math.round(x * 100) / 100 and parseFloat(x.toFixed(2)), for an amount   *)
(* given in hundredths of a cent.                                          *)
RoundCents(hundredths) == (hundredths + 50) \div 100

(* items.reduce over item.product.price * item.quantity; the cart          *)
(* controller skips an item whose product or price is missing.             *)
itemsSubtotal(items) ==
  SumSeq([i \in 1..Len(items) |->
            IF items[i].product \in ProductIds
              THEN Price(items[i].product) * items[i].quantity ELSE 0])

(* calculateCartTotals(items) of the cart controller: 10% tax, total =      *)
(* subtotal + tax; it has no shipping.                                     *)
calculateCartTotals(items) ==
  LET subtotal == itemsSubtotal(items)
  IN [subtotal |-> subtotal,
      tax |-> RoundCents(10 * subtotal),
      total |-> RoundCents(100 * subtotal + 10 * subtotal)]

(* getCartTotals() of the frontend cart store: shipping 10 unless the      *)
(* subtotal is above 100, tax = subtotal * 0.08.                           *)
getCartTotals(items) ==
  LET subtotal == itemsSubtotal(items)
      shipping == IF subtotal > FreeShippingOver THEN 0 ELSE FlatShipping
  IN [subtotal |-> subtotal,
      shipping |-> shipping,
      tax |-> RoundCents(8 * subtotal),
      total |-> RoundCents(100 * subtotal + 100 * shipping + 8 * subtotal)]

(* The order document that createOrder builds for the items. *)
orderTotals(items) ==
  LET loop == itemLoop(items, [id \in ProductIds |-> storedProduct(id)], <<>>, 0)
      order == newOrder("u1", loop.orderItems, loop.subtotal, "none")
  IN [subtotal |-> order.subtotal, shipping |-> order.shipping,
      tax |-> order.tax, total |-> order.total]

TotalsItems ==
  LET one == {<<[product |-> p, quantity |-> q]>> : p \in ProductIds, q \in 1..MaxTotalsQty}
  IN one \cup {a \o b : a \in one, b \in one}

NoCartTotals == [subtotal |-> 0, tax |-> 0, total |-> 0]
NoTotals == [subtotal |-> 0, shipping |-> 0, tax |-> 0, total |-> 0]

InitTotals ==
  /\ \E items \in TotalsItems : req = [NoRequest EXCEPT !.op = "totals", !.items = items]
  /\ res = [done |-> {}, cart |-> NoCartTotals, store |-> NoTotals, order |-> NoTotals]
  /\ products = [id \in ProductIds |-> storedProduct(id)]
  /\ orders = <<>>
  /\ pre = <<>>
  /\ cancels = NoCancels
  /\ carts = <<>>
  /\ wishlists = <<>>
  /\ users = <<>>
  /\ procs = <<>>

totalsFrame == <<req, products, orders, pre, cancels, carts, wishlists, users, procs>>

(* The cart endpoints answer with calculateCartTotals(cart.items). *)
CalculateCartTotals ==
  /\ "cart" \notin res.done
  /\ res' = [res EXCEPT !.done = @ \cup {"cart"}, !.cart = calculateCartTotals(req.items)]
  /\ UNCHANGED totalsFrame

(* The frontend shows getCartTotals(). *)
GetCartTotals ==
  /\ "store" \notin res.done
  /\ res' = [res EXCEPT !.done = @ \cup {"store"}, !.store = getCartTotals(req.items)]
  /\ UNCHANGED totalsFrame

(* createOrder computes the totals of the order. *)
OrderTotals ==
  /\ "order" \notin res.done
  /\ res' = [res EXCEPT !.done = @ \cup {"order"}, !.order = orderTotals(req.items)]
  /\ UNCHANGED totalsFrame

NextTotals == CalculateCartTotals \/ GetCartTotals \/ OrderTotals

SpecTotals == InitTotals /\ [][NextTotals]_vars

(* C25: for the same items the totals of the cart endpoints and of the     *)
(* frontend cart store equal the subtotal, tax, shipping and total of the  *)
(* order that createOrder builds, each with a tax of 10% and a shipping of *)
(* 10 that is waived when the subtotal is above 100.                       *)
(* (Checked under SpecTotals.)                                             *)
C25_SameTotals ==
  res.done = {"cart", "store", "order"} =>
    /\ 10 * res.order.tax = res.order.subtotal
    /\ res.order.shipping = (IF res.order.subtotal > 10000 THEN 0 ELSE 1000)
    /\ res.order.total = res.order.subtotal + res.order.tax + res.order.shipping
    /\ res.store = res.order
    /\ HasPath(res.cart, "shipping")
    /\ res.cart = res.order

-----------------------------------------------------------------------------
(* Inventory bookkeeping (SpecInventory): the order flow of Spec together  *)
(* with the admin's status updates.  procs keeps, per product, the stock   *)
(* plus the quantity held by the orders that are not cancelled, as it was  *)
(* initially.                                                              *)

(* updateOrderStatus, behind the admin middleware of the route.            *)
updateOrderStatus(os, user, id, status) ==
  LET answer(c) == [code |-> c, orders |-> os]
  IN IF Role(user) # "admin" THEN answer(403)
     ELSE IF status = "none" THEN answer(400)
     ELSE IF findByIdThrows(id) THEN answer(500)
     ELSE IF ~findByIdFinds(os, id) THEN answer(404)
     ELSE
       LET assigned == [os[id] EXCEPT !.status = status]
       IN IF statusHistoryPushThrows(assigned) THEN answer(500)
          ELSE
            LET saved == saveOrder(os, id, statusHistoryPush(assigned, status))
            IN IF saved.ok THEN [code |-> 200, orders |-> saved.orders]
               ELSE answer(500)

(* The quantity of product p in the orders of os that are not cancelled. *)
RECURSIVE HeldIn(_, _, _)
HeldIn(os, ids, p) ==
  IF ids = {} THEN 0
  ELSE LET id == CHOOSE x \in ids : TRUE
       IN (IF os[id].status = "cancelled" THEN 0 ELSE QtyOf(os[id].items, p))
            + HeldIn(os, ids \ {id}, p)

OnHandOrHeld(ps, os, p) == ps[p].stock + HeldIn(os, DOMAIN os, p)

InitInventory ==
  /\ products = [id \in ProductIds |-> storedProduct(id)]
  /\ \E s1 \in {"pending", "confirmed", "cancelled"} :
       orders = [id \in OrderIds |->
                   IF id = "o1"
                     THEN storedOrder("u1", <<orderItem("pA", 1), orderItem("pB", 1)>>,
                                      s1, "pi1")
                     ELSE storedOrder("u2", <<orderItem("pA", 1), orderItem("pA", 1)>>,
                                      "pending", "none")]
  /\ procs = [p \in ProductIds |-> OnHandOrHeld(products, orders, p)]
  /\ req = NoRequest
  /\ res = [code |-> 0, logged |-> "none"]
  /\ pre = [products |-> products, orders |-> orders]
  /\ cancels = NoCancels
  /\ carts = <<>>
  /\ wishlists = <<>>
  /\ users = <<>>

(* PUT /api/orders/:id/status *)
UpdateOrderStatus ==
  \E user \in Users, id \in OrderIds \cup {MissingOrder, BadOrderId},
     status \in {"none", "shipped", "cancelled"} :
    LET out == updateOrderStatus(orders, user, id, status)
    IN /\ Idle
       /\ TimelinesBounded
       /\ orders' = out.orders
       /\ req' = [NoRequest EXCEPT !.op = "updateOrderStatus", !.user = user,
                                   !.order = id]
       /\ res' = [code |-> out.code,
                  logged |-> IF out.code = 500 THEN "Error updating order status"
                             ELSE "none"]
       /\ Snapshot
       /\ UNCHANGED <<products, cancels, aside>>

NextInventory == CreateOrder \/ CancelOrder \/ UpdateOrderStatus \/ Webhook \/ Respond

SpecInventory == InitInventory /\ [][NextInventory]_vars

(* C26: in every state reached by createOrder, cancelOrder, admin          *)
(* updateOrderStatus and payment-webhook requests that do not overlap, the *)
(* stock of each product plus the quantity of it in the persisted orders   *)
(* that are not cancelled is what it was initially.                        *)
(* (Checked under SpecInventory.)                                          *)
C26_InventoryConserved ==
  \A p \in ProductIds : OnHandOrHeld(products, orders, p) = procs[p]

(* An admin's status update for o1 has been answered after a createOrder   *)
(* request saved a product and the owner of o1 asked to cancel it.         *)
C26_Witness ==
  /\ req.op = "updateOrderStatus" /\ req.order = "o1" /\ Role(req.user) = "admin"
  /\ res.code = 500
  /\ TotalSold(products) > 0
  /\ cancels["o1"].n > 0

-----------------------------------------------------------------------------
-----------------------------------------------------------------------------
-----------------------------------------------------------------------------
(* C29: starting with an admin among the stored users, after any sequence  *)
(* of admin updateUserRole and deleteUser requests and of users' own       *)
(* account deletions a stored user with role admin still exists.           *)
(* (Checked under SpecUsers.)                                              *)
C29_AdminRemains ==
  \E u \in DOMAIN users : users[u].role = "admin"

-----------------------------------------------------------------------------
(* C30: a processRefund call that is saved appends exactly one refund      *)
(* entry and leaves paymentStatus refunded if the amounts of all refunds,  *)
(* the new one included once, sum to the order's total or more, and        *)
(* partially_refunded otherwise.  (Checked under SpecRefund.)              *)
C30_RefundStatus ==
  (req.op = "processRefund" /\ res.code = 200) =>
    LET before == pre.orders[req.order]
        after == orders[req.order]
    IN /\ Len(after.refunds) = Len(before.refunds) + 1
       /\ after.paymentStatus =
            (IF totalRefunded(after) >= after.total
               THEN "refunded" ELSE "partially_refunded")

====
